---------------------------- MODULE Spec2Model ----------------------------
(***************************************************************************)
(* A model of src/migrate.js: the three-phase migration of a Slite export  *)
(* into Outline (create structure, upload attachments, rewrite links).     *)
(*                                                                         *)
(* Text is modelled as a sequence of symbols.  A symbol is a one-character *)
(* string ("[", "]", "(", ")", "!", "#", " ", "\n", "/", ".", ":") or a    *)
(* chunk of characters that the code never looks inside ("a", "md",        *)
(* "png", "http", "media_", "%20").  Every string operation of the source  *)
(* (startsWith, endsWith, includes, split, the regular expressions) is     *)
(* computed on these sequences symbol by symbol.                           *)
(***************************************************************************)
EXTENDS Integers, Sequences, FiniteSets, TLC

(***************************************************************************)
(* String primitives                                                       *)
(***************************************************************************)

\* String.prototype.startsWith
StartsWith(s, p) ==
    /\ Len(p) <= Len(s)
    /\ SubSeq(s, 1, Len(p)) = p

\* String.prototype.endsWith
EndsWith(s, p) ==
    /\ Len(p) <= Len(s)
    /\ SubSeq(s, Len(s) - Len(p) + 1, Len(s)) = p

\* String.prototype.includes, for a pattern that is one chunk
Includes(s, c) == \E i \in 1..Len(s) : s[i] = c

\* s.slice(i): the suffix of s that starts at position i (1-based)
From(s, i) == SubSeq(s, i, Len(s))

\* the least position j >= i with s[j] = c, or 0 when there is none
RECURSIVE IndexFrom(_, _, _)
IndexFrom(s, c, i) ==
    IF i > Len(s) THEN 0
    ELSE IF s[i] = c THEN i
    ELSE IndexFrom(s, c, i + 1)

\* the greatest position j with s[j] = c, or 0 when there is none
RECURSIVE LastIndex(_, _, _)
LastIndex(s, c, i) ==
    IF i < 1 THEN 0
    ELSE IF s[i] = c THEN i
    ELSE LastIndex(s, c, i - 1)

NL == "\n"

\* the characters the regular-expression class \s matches
IsSpace(c) == c \in {" ", "\t", NL}

\* the characters the class [ \t] matches
IsBlank(c) == c \in {" ", "\t"}

\* String.prototype.trim
RECURSIVE TrimStart(_)
TrimStart(s) ==
    IF s # <<>> /\ IsSpace(Head(s)) THEN TrimStart(Tail(s)) ELSE s

RECURSIVE TrimEnd(_)
TrimEnd(s) ==
    IF s # <<>> /\ IsSpace(s[Len(s)]) THEN TrimEnd(SubSeq(s, 1, Len(s) - 1)) ELSE s

Trim(s) == TrimEnd(TrimStart(s))

\* s.replace(/^\n+/, ''): drop the newlines the string starts with
RECURSIVE StripLeadingNewlines(_)
StripLeadingNewlines(s) ==
    IF s # <<>> /\ Head(s) = NL THEN StripLeadingNewlines(Tail(s)) ELSE s

\* String.prototype.toLowerCase on the chunks of a file name
ToLowerCase(c) ==
    CASE c = "PNG" -> "png"
      [] c = "JPG" -> "jpg"
      [] OTHER -> c

\* decodeURIComponent: "%20" is the one escape of the alphabet
DecodeChar(c) == IF c = "%20" THEN " " ELSE c

decodeURIComponent(s) == [i \in 1..Len(s) |-> DecodeChar(s[i])]

(***************************************************************************)
(* node:path                                                               *)
(***************************************************************************)

SEP == "/"

\* path.join of a directory and a name (both already normalized)
join(dir, name) == dir \o <<SEP>> \o name

\* path.dirname
dirname(p) ==
    LET k == LastIndex(p, SEP, Len(p))
    IN  IF k = 0 THEN <<".">> ELSE SubSeq(p, 1, k - 1)

\* path.basename(p)
basename(p) == From(p, LastIndex(p, SEP, Len(p)) + 1)

\* path.basename(p, ext)
basenameExt(p, ext) ==
    LET b == basename(p)
    IN  IF EndsWith(b, ext) /\ Len(b) > Len(ext)
        THEN SubSeq(b, 1, Len(b) - Len(ext))
        ELSE b

MD == <<".", "md">>


(***************************************************************************)
(* Map: a JavaScript Map, kept as the sequence of its entries in insertion *)
(* order (the order entries() iterates in).                                *)
(***************************************************************************)

EmptyMap == <<>>

MapHas(m, key) == \E i \in 1..Len(m) : m[i].k = key

\* Map.prototype.get; NULL stands for undefined
NULL == "null"

MapGet(m, key) ==
    IF MapHas(m, key)
    THEN m[CHOOSE i \in 1..Len(m) : m[i].k = key].v
    ELSE NULL

\* MapSet that leaves a known key with the value it has
MapSetKeepFirst(m, key, val) ==
    IF MapHas(m, key) THEN m ELSE Append(m, [k |-> key, v |-> val])

\* Map.prototype.set: a new key is appended, a known key keeps its place
MapSet(m, key, val) ==
    IF MapHas(m, key)
    THEN [i \in 1..Len(m) |-> IF m[i].k = key THEN [k |-> key, v |-> val] ELSE m[i]]
    ELSE Append(m, [k |-> key, v |-> val])

MapKeys(m) == {m[i].k : i \in 1..Len(m)}

\* MapMerge into a list of entries rather than a Map: a known key is added
\* once more
MapMergeAppend(b, a) == b \o a

\* a.forEach((v, k) => b.set(k, v)) : every entry of a is set in b, in a's order
RECURSIVE MapMerge(_, _)
MapMerge(b, a) ==
    IF a = <<>> THEN b
    ELSE MapMerge(MapSet(b, Head(a).k, Head(a).v), Tail(a))

(***************************************************************************)
(* The two link regular expressions                                        *)
(***************************************************************************)

\* A markdown link whose "[" is at position b of s, with the link text
\* matched by [^\]]* (minText = 0) or [^\]]+ (minText = 1) and the target by
\* [^)]+.  Neither class can step over its own terminator, so the match, if
\* any, is unique: the text ends at the first "]" and the target at the
\* first ")".  end is the position after the match.
LinkAt(s, b, minText) ==
    LET rb == IndexFrom(s, "]", b + 1)
        rp == IF rb = 0 THEN 0 ELSE IndexFrom(s, ")", rb + 2)
        ok == /\ b <= Len(s)
              /\ s[b] = "["
              /\ rb # 0
              /\ rb - (b + 1) >= minText
              /\ rb + 1 <= Len(s)
              /\ s[rb + 1] = "("
              /\ rp # 0
              /\ rp - (rb + 2) >= 1
    IN  IF ok
        THEN [ok |-> TRUE, text |-> SubSeq(s, b + 1, rb - 1),
              path |-> SubSeq(s, rb + 2, rp - 1), end |-> rp + 1]
        ELSE [ok |-> FALSE, text |-> <<>>, path |-> <<>>, end |-> b]

\* linkRegex = /(!?\[(?:[^\]]*)\]\(([^)]+)\))/g tried at position i
linkRegexAt(s, i) ==
    IF i < Len(s) /\ s[i] = "!" /\ LinkAt(s, i + 1, 0).ok
    THEN LinkAt(s, i + 1, 0)
    ELSE LinkAt(s, i, 0)

\* /\[([^\]]+)\]\(([^)]+)\)/g tried at position i
updateRegexAt(s, i) == LinkAt(s, i, 1)

HTTP == <<"http", ":", "/", "/">>
HTTPS == <<"http", "s", ":", "/", "/">>

\* content.matchAll(linkRegex): the targets of the matches, left to right
RECURSIVE matchAllPaths(_, _)
matchAllPaths(s, i) ==
    IF i > Len(s) THEN <<>>
    ELSE LET m == linkRegexAt(s, i)
         IN  IF m.ok
             THEN <<m.path>> \o matchAllPaths(s, m.end)
             ELSE matchAllPaths(s, i + 1)

\* the loop of scanMarkdownLinks over the matched targets
RECURSIVE scanLoop(_, _, _)
scanLoop(paths, sourcePath, acc) ==
    IF paths = <<>> THEN acc
    ELSE LET path == Head(paths)
             next ==
                 IF ~StartsWith(path, HTTP) /\ ~StartsWith(path, HTTPS)
                 THEN IF EndsWith(path, MD)
                      THEN [acc EXCEPT !.documentLinks = MapSet(@, path, sourcePath)]
                      ELSE [acc EXCEPT !.attachmentLinks = MapSet(@, path, sourcePath)]
                 ELSE acc
         IN  scanLoop(Tail(paths), sourcePath, next)

scanMarkdownLinks(content, sourcePath) ==
    scanLoop(matchAllPaths(content, 1), sourcePath,
             [attachmentLinks |-> EmptyMap, documentLinks |-> EmptyMap])

(***************************************************************************)
(* The cleaning transform: six lines of metadata, then the first heading   *)
(***************************************************************************)

PreambleLines == 6

\* the position after the n-th newline of s at or after i, or Len(s) + 2
\* when s has fewer than n newlines left
RECURSIVE AfterNewlines(_, _, _)
AfterNewlines(s, i, n) ==
    IF n = 0 THEN i
    ELSE LET k == IndexFrom(s, NL, i)
         IN  IF k = 0 THEN Len(s) + 2 ELSE AfterNewlines(s, k + 1, n - 1)

\* content.split('\n').slice(6).join('\n')
dropPreamble(content) == From(content, AfterNewlines(content, 1, PreambleLines))

\* the first position >= i whose character is not blank / not white space
RECURSIVE SkipBlank(_, _)
SkipBlank(s, i) ==
    IF i <= Len(s) /\ IsBlank(s[i]) THEN SkipBlank(s, i + 1) ELSE i

RECURSIVE SkipSpace(_, _)
SkipSpace(s, i) ==
    IF i <= Len(s) /\ IsSpace(s[i]) THEN SkipSpace(s, i + 1) ELSE i

RECURSIVE SkipNewlines(_, _)
SkipNewlines(s, i) ==
    IF i <= Len(s) /\ s[i] = NL THEN SkipNewlines(s, i + 1) ELSE i

\* the greatest position in lo..i whose character is not a newline, or 0
RECURSIVE LastNonNewline(_, _, _)
LastNonNewline(s, lo, i) ==
    IF i < lo THEN 0
    ELSE IF s[i] # NL THEN i
    ELSE LastNonNewline(s, lo, i - 1)

\* /^[ \t]*#\s*(.+?)(?:\n+|$)/m tried at the line start p.  \s* is greedy
\* and may run over newlines; when it runs to the end of the input it gives
\* characters back until (.+?) finds one that is not a newline.  (.+?) then
\* takes the rest of that line, and \n+ the newlines after it.
headerAt(s, p) ==
    LET h  == SkipBlank(s, p)
        q  == h + 1
        r0 == SkipSpace(s, q)
        r  == IF r0 <= Len(s) THEN r0 ELSE LastNonNewline(s, q, Len(s))
        nl == IF r = 0 THEN 0 ELSE IndexFrom(s, NL, r)
        e  == IF nl = 0 THEN Len(s) ELSE nl - 1
        ok == h <= Len(s) /\ s[h] = "#" /\ r # 0
    IN  IF ok
        THEN [ok |-> TRUE, start |-> p, title |-> SubSeq(s, r, e),
              end |-> SkipNewlines(s, e + 1)]
        ELSE [ok |-> FALSE, start |-> p, title |-> <<>>, end |-> p]

\* the first match of the heading expression in s at a line start >= p
RECURSIVE headerMatch(_, _)
headerMatch(s, p) ==
    IF p > Len(s) THEN [ok |-> FALSE, start |-> p, title |-> <<>>, end |-> p]
    ELSE IF (p = 1 \/ s[p - 1] = NL) /\ headerAt(s, p).ok THEN headerAt(s, p)
    ELSE headerMatch(s, p + 1)

\* s.replace(/^[ \t]*#\s*(.+?)(?:\n+|$)/m, '')
removeHeader(s) ==
    LET m == headerMatch(s, 1)
    IN  IF m.ok THEN SubSeq(s, 1, m.start - 1) \o From(s, m.end) ELSE s

parseDocumentContent(content, fileName) ==
    LET mainContent == dropPreamble(content)
        m == headerMatch(mainContent, 1)
    IN  IF m.ok
        THEN [title   |-> Trim(Trim(m.title)),
              content |-> Trim(StripLeadingNewlines(removeHeader(mainContent)))]
        ELSE [title   |-> Trim(basenameExt(fileName, MD)),
              content |-> Trim(mainContent)]

(***************************************************************************)
(* Link Rewriter                                                           *)
(***************************************************************************)

\* path.replace(/^\//, '')
stripLeadingSlash(path) == IF path # <<>> /\ Head(path) = SEP THEN Tail(path) ELSE path

\* s.replace(/\.md$/, '')
stripMd(s) == IF EndsWith(s, MD) THEN SubSeq(s, 1, Len(s) - Len(MD)) ELSE s

\* the markdown link "[text](target)"
Link(text, target) == <<"[">> \o text \o <<"]", "(">> \o target \o <<")">>

\* the callback of the replace in updateMarkdownLinks: what one matched
\* link is replaced by
replaceLink(match, linkText, path, docUrls, attUrls) ==
    LET normalizedPath == stripMd(decodeURIComponent(stripLeadingSlash(path)))
        docUrl == IF MapHas(docUrls, normalizedPath)
                  THEN MapGet(docUrls, normalizedPath)
                  ELSE MapGet(docUrls, normalizedPath \o MD)
        attachmentUrl == MapGet(attUrls, path)
    IN  IF StartsWith(path, <<"http">>) THEN match
        ELSE IF docUrl # NULL THEN Link(linkText, docUrl)
        ELSE IF attachmentUrl # NULL THEN Link(linkText, attachmentUrl)
        ELSE match

\* replaceLinks with the search resumed one symbol after the start of a
\* match rather than at its end
RECURSIVE replaceLinksOverlapping(_, _, _, _)
replaceLinksOverlapping(s, i, docUrls, attUrls) ==
    IF i > Len(s) THEN <<>>
    ELSE LET m == updateRegexAt(s, i)
         IN  IF m.ok
             THEN replaceLink(SubSeq(s, i, m.end - 1), m.text, m.path, docUrls, attUrls)
                      \o replaceLinksOverlapping(s, i + 1, docUrls, attUrls)
             ELSE <<s[i]>> \o replaceLinksOverlapping(s, i + 1, docUrls, attUrls)

\* cleanedContent.replace(/\[([^\]]+)\]\(([^)]+)\)/g, callback) from position i
RECURSIVE replaceLinks(_, _, _, _)
replaceLinks(s, i, docUrls, attUrls) ==
    IF i > Len(s) THEN <<>>
    ELSE LET m == updateRegexAt(s, i)
         IN  IF m.ok
             THEN replaceLink(SubSeq(s, i, m.end - 1), m.text, m.path, docUrls, attUrls)
                      \o replaceLinks(s, m.end, docUrls, attUrls)
             ELSE <<s[i]>> \o replaceLinks(s, i + 1, docUrls, attUrls)

\* updateMarkdownLinks, with the two registries it reads as parameters
updateMarkdownLinks(content, docUrls, attUrls) ==
    LET cleanedContent == StripLeadingNewlines(removeHeader(dropPreamble(content)))
    IN  replaceLinks(cleanedContent, 1, docUrls, attUrls)

(***************************************************************************)
(* The export on disk: the sequence of its files and directories, each     *)
(* directory's entries in the order readdir lists them.                    *)
(***************************************************************************)

\* './slite-backup/channels', as path.join normalizes it
SLITE_BACKUP_PATH == <<"slite-backup", SEP, "channels">>

\* path.relative(SLITE_BACKUP_PATH, p) for a path p below the export root
relative(p) ==
    IF StartsWith(p, SLITE_BACKUP_PATH \o <<SEP>>)
    THEN From(p, Len(SLITE_BACKUP_PATH) + 2)
    ELSE p

\* readdir(dirPath, { withFileTypes: true })
readdir(fs, dirPath) == SelectSeq(fs, LAMBDA e : dirname(e.path) = dirPath)

isFile(fs, p) == \E i \in 1..Len(fs) : fs[i].path = p /\ fs[i].kind = "file"

isDirectory(fs, p) == \E i \in 1..Len(fs) : fs[i].path = p /\ fs[i].kind = "dir"

\* readFile(p, 'utf-8')
readFile(fs, p) == fs[CHOOSE i \in 1..Len(fs) : fs[i].path = p].content

\* file.name.toLowerCase().match(/\.[^.]+$/)?.[0], or <<>> for no match
extensionOf(name) ==
    LET k == LastIndex(name, ".", Len(name))
    IN  IF k # 0 /\ k < Len(name)
        THEN [i \in 1..(Len(name) - k + 1) |-> ToLowerCase(name[k + i - 1])]
        ELSE <<>>

mediaExtensions ==
    {<<".", "jpg">>, <<".", "jpeg">>, <<".", "png">>, <<".", "gif">>, <<".", "pdf">>}

\* isMediaFolder without the test for a directory that holds no file
isMediaFolderEmptyIsMedia(fs, dirPath) ==
    LET entries == readdir(fs, dirPath)
        files == SelectSeq(entries, LAMBDA e : e.kind = "file")
    IN  IF StartsWith(basename(dirPath), <<"media_">>) THEN TRUE
        ELSE \A i \in 1..Len(files) :
                 extensionOf(basename(files[i].path)) \in mediaExtensions

isMediaFolder(fs, dirPath) ==
    LET entries == readdir(fs, dirPath)
        files == SelectSeq(entries, LAMBDA e : e.kind = "file")
    IN  IF StartsWith(basename(dirPath), <<"media_">>) THEN TRUE
        ELSE IF Len(files) = 0 THEN FALSE
        ELSE \A i \in 1..Len(files) :
                 extensionOf(basename(files[i].path)) \in mediaExtensions

\* path.resolve(dir, p): an absolute p stands alone
resolve(dir, p) == IF p # <<>> /\ Head(p) = SEP THEN p ELSE join(dir, p)

resolveAttachmentPath(attachmentPath, sourceDocPath) ==
    LET sourceDir == dirname(sourceDocPath)
        decodedPath == decodeURIComponent(attachmentPath)
        sourceDocName == basenameExt(sourceDocPath, MD)
    IN  IF Includes(decodedPath, "media_")
        THEN resolve(sourceDir, decodedPath)
        ELSE resolve(resolve(sourceDir, <<"media_">> \o sourceDocName), decodedPath)

\* scanDirectory: the loop over entries[i..], with the links found so far
RECURSIVE scanEntries(_, _, _, _)
scanEntries(fs, entries, i, acc) ==
    IF i > Len(entries) THEN acc
    ELSE LET entry == entries[i]
             fullPath == entry.path
             found ==
                 IF entry.kind = "file" /\ EndsWith(basename(entry.path), MD)
                 THEN scanMarkdownLinks(readFile(fs, fullPath), fullPath)
                 ELSE IF entry.kind = "dir"
                 THEN scanEntries(fs, readdir(fs, fullPath), 1,
                          [attachmentLinks |-> EmptyMap, documentLinks |-> EmptyMap])
                 ELSE [attachmentLinks |-> EmptyMap, documentLinks |-> EmptyMap]
         IN  scanEntries(fs, entries, i + 1,
                 [attachmentLinks |-> MapMerge(acc.attachmentLinks, found.attachmentLinks),
                  documentLinks   |-> MapMerge(acc.documentLinks, found.documentLinks)])

scanDirectory(fs, dirPath) ==
    scanEntries(fs, readdir(fs, dirPath), 1,
                [attachmentLinks |-> EmptyMap, documentLinks |-> EmptyMap])

\* fileName.split('.').pop()?.toLowerCase(), then the MIME table
mimeType(fileName) ==
    LET k == LastIndex(fileName, ".", Len(fileName))
        ext == IF Len(fileName) - k = 1 THEN ToLowerCase(fileName[Len(fileName)]) ELSE ""
    IN  CASE ext \in {"jpg", "jpeg"} -> "image/jpeg"
          [] ext = "png" -> "image/png"
          [] ext = "gif" -> "image/gif"
          [] ext = "pdf" -> "application/pdf"
          [] OTHER -> "application/octet-stream"

(***************************************************************************)
(* The exports the migration is run on                                     *)
(***************************************************************************)

\* the path of an entry, from its path below the export root
P(rel) == SLITE_BACKUP_PATH \o <<SEP>> \o rel

Dir(rel) == [path |-> P(rel), kind |-> "dir", content |-> <<>>]

File(rel, content) == [path |-> P(rel), kind |-> "file", content |-> content]

\* the six metadata lines every exported document starts with
Meta == <<"meta", NL, NL, NL, NL, NL, NL>>

Image(text, target) == <<"!">> \o Link(text, target)

XPng == <<"x", ".", "png">>

\* the end-to-end scenario: a document with an image, a sub-folder
ExportScenario ==
    << Dir(<<"c">>),
       File(<<"c", SEP, "a", ".", "md">>,
            Meta \o <<"#", " ", "A", NL>> \o Image(<<"img">>, XPng)),
       Dir(<<"c", SEP, "media_", "a">>),
       File(<<"c", SEP, "media_", "a", SEP, "x", ".", "png">>, <<>>),
       Dir(<<"c", SEP, "b">>),
       File(<<"c", SEP, "b", SEP, "c", ".", "md">>, Meta \o <<"t">>) >>

\* two documents that link to each other, one by a path relative to the
\* linking document, one by a path relative to the export root
ExportDocLinks ==
    << Dir(<<"c">>),
       File(<<"c", SEP, "a", ".", "md">>,
            Meta \o Link(<<"t">>, <<"b", ".", "md">>)),
       File(<<"c", SEP, "b", ".", "md">>,
            Meta \o Link(<<"u">>, <<"c", SEP, "a", ".", "md">>)) >>

\* channel directories that classify as media folders, and a plain file
\* next to the channels
ExportMediaChannels ==
    << Dir(<<"media_", "m">>),
       File(<<"media_", "m", SEP, "e", ".", "md">>, Meta \o <<"t">>),
       File(<<"r", ".", "md">>, Meta \o <<"t">>),
       Dir(<<"p">>),
       File(<<"p", SEP, "x", ".", "png">>, <<>>),
       Dir(<<"p", SEP, "q">>),
       File(<<"p", SEP, "q", SEP, "f", ".", "md">>,
            Meta \o Image(<<"i">>, <<"media_", "f", SEP, "x", ".", "png">>)),
       Dir(<<"p", SEP, "q", SEP, "media_", "f">>),
       File(<<"p", SEP, "q", SEP, "media_", "f", SEP, "x", ".", "png">>, <<>>) >>

\* an image with an empty link text, an attachment whose file is missing,
\* a markdown file inside a media folder, a file that is not markdown
ExportAttachments ==
    << Dir(<<"c">>),
       File(<<"c", SEP, "a", ".", "md">>,
            Meta \o Image(<<>>, XPng) \o <<" ">> \o Link(<<"m">>, <<"y", ".", "pdf">>)),
       File(<<"c", SEP, "notes", ".", "txt">>, <<"t">>),
       Dir(<<"c", SEP, "media_", "a">>),
       File(<<"c", SEP, "media_", "a", SEP, "x", ".", "png">>, <<>>),
       File(<<"c", SEP, "media_", "a", SEP, "n", ".", "md">>,
            Meta \o Link(<<"z">>, <<"w", ".", "gif">>)) >>

\* folders inside folders, and a folder that holds nothing but pictures
ExportNested ==
    << Dir(<<"c">>),
       Dir(<<"c", SEP, "s">>),
       File(<<"c", SEP, "s", SEP, "d", ".", "md">>, Meta \o <<"t">>),
       Dir(<<"c", SEP, "s", SEP, "g">>),
       File(<<"c", SEP, "s", SEP, "g", SEP, "y", ".", "PNG">>, <<>>),
       Dir(<<"c", SEP, "s", SEP, "t">>),
       File(<<"c", SEP, "s", SEP, "t", SEP, "d", ".", "md">>, Meta \o <<"t">>) >>

\* the same literal link in two documents, each with its own media folder
ExportSharedLiteral ==
    << Dir(<<"c">>),
       File(<<"c", SEP, "a", ".", "md">>, Meta \o Image(<<"i">>, XPng)),
       File(<<"c", SEP, "b", ".", "md">>, Meta \o Image(<<"i">>, XPng)),
       Dir(<<"c", SEP, "media_", "a">>),
       File(<<"c", SEP, "media_", "a", SEP, "x", ".", "png">>, <<>>),
       Dir(<<"c", SEP, "media_", "b">>),
       File(<<"c", SEP, "media_", "b", SEP, "x", ".", "png">>, <<>>) >>

\* a directory whose name ends in ".md", with a document inside it, and a
\* file that is not markdown
ExportContainers ==
    << Dir(<<"c">>),
       File(<<"c", SEP, "n", ".", "txt">>, <<"t">>),
       Dir(<<"c", SEP, "k", ".", "md">>),
       File(<<"c", SEP, "k", ".", "md", SEP, "a", ".", "md">>,
            Meta \o <<"#", " ", "A", NL, "t">>) >>

\* two folders side by side, the first with a folder of its own, and a
\* document that the listing shows between them
ExportSiblings ==
    << Dir(<<"c">>),
       Dir(<<"c", SEP, "s">>),
       Dir(<<"c", SEP, "s", SEP, "u">>),
       File(<<"c", SEP, "s", SEP, "u", SEP, "y", ".", "md">>, Meta \o <<"t">>),
       File(<<"c", SEP, "s", SEP, "x", ".", "md">>, Meta \o <<"t">>),
       File(<<"c", SEP, "a", ".", "md">>, Meta \o <<"t">>),
       Dir(<<"c", SEP, "t">>),
       File(<<"c", SEP, "t", SEP, "z", ".", "md">>, Meta \o <<"t">>) >>

\* the same literal link in a document of a folder and in a document that
\* the listing shows after the folder; only the folder's document has the
\* picture in its media folder
ExportSharedAcross ==
    << Dir(<<"c">>),
       Dir(<<"c", SEP, "s">>),
       File(<<"c", SEP, "s", SEP, "x", ".", "md">>, Meta \o Image(<<"i">>, XPng)),
       Dir(<<"c", SEP, "s", SEP, "media_", "x">>),
       File(<<"c", SEP, "s", SEP, "media_", "x", SEP, "x", ".", "png">>, <<>>),
       File(<<"c", SEP, "a", ".", "md">>, Meta \o Image(<<"i">>, XPng)) >>

Exports ==
    {ExportScenario, ExportDocLinks, ExportMediaChannels, ExportAttachments,
     ExportNested, ExportSharedLiteral, ExportContainers, ExportSiblings,
     ExportSharedAcross}

(***************************************************************************)
(* The state of a run of migrate()                                         *)
(***************************************************************************)

VARIABLES
    fs,                \* the export on disk (never written)
    pc,                \* where migrate() is
    phase,             \* the orchestrator's state
    chanIdx,           \* the channel loop's position in readdir(SLITE_BACKUP_PATH)
    stack,             \* the active calls of createDocumentStructure, innermost last
    documentIdMap,     \* local path -> outline document ID
    documentUrlMap,    \* original path -> outline url
    attachmentUrlMap,  \* original path -> outline url
    attachmentLinks,   \* the attachment links scanDirectory returned
    attIdx,            \* the attachment loop's position in attachmentLinks
    updIdx,            \* the update loop's position in documentIdMap
    retries,           \* makeRequest's local counter
    lastError,         \* what the latest failed attempt failed with
    calls,             \* every remote call begun so far, in order
    nextId,            \* the number of identifiers the service has handed out
    failures,          \* the number of failed attempts so far
    exitCode,          \* the process exit status, NULL while running
    writes,            \* every registry write so far: which map, key and value
    applied            \* a pure function's input and results, outside a run

vars ==
    <<fs, applied, pc, phase, chanIdx, stack, documentIdMap, documentUrlMap,
      attachmentUrlMap, attachmentLinks, attIdx, updIdx, retries, lastError,
      calls, nextId, failures, exitCode, writes>>

\* const maxRetries = 3
maxRetries == 3

\* the failed attempts a run may see in all
MaxFailures == 3

\* how a fetch can fail: it throws, or the response is not ok
FetchErrors == {"network", "http4xx", "http5xx"}

RECURSIVE Pow2(_)
Pow2(n) == IF n = 0 THEN 1 ELSE 2 * Pow2(n - 1)

\* the identifier the service gives its n-th new object
IdOf(n) == ToString(n)

\* `/doc/${doc.id}`
DocUrl(id) == <<SEP, "doc", SEP, id>>

\* the url of an attachment record, as attachments.create returns it
AttachmentUrl(id) == <<SEP, "api", SEP, "attachments.redirect?id=", id>>

\* a remote call as it is begun: the endpoint and the request payload; src is
\* the local path (or, for an attachment, the literal link) it is made for
Call(endpoint, src, title, text, collectionId, parentDocumentId, id) ==
    [endpoint |-> endpoint, phase |-> phase, src |-> src, title |-> title,
     text |-> text, collectionId |-> collectionId,
     parentDocumentId |-> parentDocumentId, id |-> id,
     attempts |-> 0, outcome |-> "pending", waits |-> <<>>, response |-> NULL]

\* one call of Map.prototype.set on a registry
Write(map, key, val) == [map |-> map, key |-> key, val |-> val]

Last(q) == q[Len(q)]

\* the log with its latest call changed to c
SetLast(q, c) == [q EXCEPT ![Len(q)] = c]

Top == stack[Len(stack)]

\* no pure function has been applied
NothingApplied ==
    [content |-> <<>>, docUrls |-> EmptyMap, attUrls |-> EmptyMap,
     parsed |-> <<>>, updated |-> <<>>, replaced |-> <<>>, classified |-> <<>>,
     scanned |-> <<>>]

Init ==
    /\ fs \in Exports
    /\ applied = NothingApplied
    /\ pc = "start"
    /\ phase = "CreatingStructure"
    /\ chanIdx = 1
    /\ stack = <<>>
    /\ documentIdMap = EmptyMap
    /\ documentUrlMap = EmptyMap
    /\ attachmentUrlMap = EmptyMap
    /\ attachmentLinks = EmptyMap
    /\ attIdx = 1
    /\ updIdx = 1
    /\ retries = 0
    /\ lastError = NULL
    /\ calls = <<>>
    /\ nextId = 0
    /\ failures = 0
    /\ exitCode = NULL
    /\ writes = <<>>

(***************************************************************************)
(* makeRequest                                                             *)
(***************************************************************************)

\* the call sites of makeRequest that the run can be waiting in
InMakeRequest == pc \in {"collection", "fileDoc", "dirDoc", "update"}

Pending == calls # <<>> /\ Last(calls).outcome = "pending"

\* makeRequest is entered: retries = 0, and the call is logged
beginRequest(call) ==
    /\ calls' = Append(calls, call)
    /\ retries' = 0
    /\ lastError' = NULL

\* an attempt succeeds: response.ok, and makeRequest returns the body
fetchOk ==
    /\ InMakeRequest /\ Pending
    /\ retries < maxRetries
    /\ nextId' = IF pc = "update" THEN nextId ELSE nextId + 1
    /\ calls' = SetLast(calls, [Last(calls) EXCEPT
                    !.attempts = @ + 1,
                    !.outcome = "returned",
                    !.response = IF pc = "update" THEN Last(calls).id
                                 ELSE IdOf(nextId + 1)])
    /\ lastError' = NULL
    /\ UNCHANGED <<fs, applied, writes, pc, phase, chanIdx, stack, documentIdMap, documentUrlMap,
                   attachmentUrlMap, attachmentLinks, attIdx, updIdx, retries,
                   failures, exitCode>>

\* an attempt fails, by a thrown error or a response that is not ok: the
\* catch block counts it and waits
fetchError ==
    /\ InMakeRequest /\ Pending
    /\ retries < maxRetries
    /\ failures < MaxFailures
    /\ \E e \in FetchErrors : lastError' = e
    /\ retries' = retries + 1
    /\ failures' = failures + 1
    /\ calls' = SetLast(calls, [Last(calls) EXCEPT
                    !.attempts = @ + 1,
                    !.waits = Append(@, Pow2(retries + 1) * 1000)])
    /\ UNCHANGED <<fs, applied, writes, pc, phase, chanIdx, stack, documentIdMap, documentUrlMap,
                   attachmentUrlMap, attachmentLinks, attIdx, updIdx, nextId,
                   exitCode>>

\* makeRequestThrow that also gives up at once on a client error (4xx)
makeRequestThrowOn4xx ==
    /\ InMakeRequest /\ Pending
    /\ (~(retries < maxRetries) \/ lastError = "http4xx")
    /\ calls' = SetLast(calls, [Last(calls) EXCEPT !.outcome = "raised"])
    /\ UNCHANGED <<fs, applied, writes, pc, phase, chanIdx, stack, documentIdMap,
                   documentUrlMap, attachmentUrlMap, attachmentLinks, attIdx,
                   updIdx, retries, lastError, nextId, failures, exitCode>>

\* the loop is left: throw new Error(`Failed after ${maxRetries} retries`)
makeRequestThrow ==
    /\ InMakeRequest /\ Pending
    /\ ~(retries < maxRetries)
    /\ calls' = SetLast(calls, [Last(calls) EXCEPT !.outcome = "raised"])
    /\ UNCHANGED <<fs, applied, writes, pc, phase, chanIdx, stack, documentIdMap, documentUrlMap,
                   attachmentUrlMap, attachmentLinks, attIdx, updIdx, retries,
                   lastError, nextId, failures, exitCode>>

Returned == calls # <<>> /\ Last(calls).outcome = "returned"

Raised == calls # <<>> /\ Last(calls).outcome = "raised"

(***************************************************************************)
(* Phase 1: createCollection and createDocumentStructure                   *)
(***************************************************************************)

channels == readdir(fs, SLITE_BACKUP_PATH)

\* createCollection(name): the request it makes, for the channel at src
createCollection(name, src) ==
    Call("collections.create", src, name, <<>>, NULL, NULL, NULL)

\* createDocument(title, text, collectionId, parentDocumentId): the request
\* it makes, for the file or directory at src; data.parentDocumentId is set
\* only when a parent is given
createDocument(title, text, collectionId, parentDocumentId, src) ==
    Call("documents.create", src, title, text, collectionId,
         IF parentDocumentId # NULL THEN parentDocumentId ELSE NULL, NULL)

\* a call of createDocumentStructure: its arguments and its loop position
Frame(dirPath, collectionId, parentDocumentId) ==
    [dirPath |-> dirPath, collectionId |-> collectionId,
     parentDocumentId |-> parentDocumentId, idx |-> 1]

\* the top frame with its loop moved on by one entry
Advance == [stack EXCEPT ![Len(stack)].idx = @ + 1]

\* migrate() is entered and lists the channels
migrateStart ==
    /\ pc = "start"
    /\ pc' = "channels"
    /\ chanIdx' = 1
    /\ UNCHANGED <<fs, applied, writes, phase, stack, documentIdMap, documentUrlMap,
                   attachmentUrlMap, attachmentLinks, attIdx, updIdx, retries,
                   lastError, calls, nextId, failures, exitCode>>

\* for (const channel of channels): the next channel, or the end of phase 1
channelLoop ==
    /\ pc = "channels"
    /\ IF chanIdx > Len(channels)
       THEN /\ pc' = "scan"
            /\ phase' = "UploadingAttachments"
            /\ UNCHANGED <<chanIdx, calls, retries, lastError>>
       ELSE IF channels[chanIdx].kind = "dir"
       THEN /\ beginRequest(createCollection(basename(channels[chanIdx].path),
                                              relative(channels[chanIdx].path)))
            /\ pc' = "collection"
            /\ UNCHANGED <<chanIdx, phase>>
       ELSE /\ chanIdx' = chanIdx + 1
            /\ UNCHANGED <<pc, phase, calls, retries, lastError>>
    /\ UNCHANGED <<fs, applied, writes, stack, documentIdMap, documentUrlMap, attachmentUrlMap,
                   attachmentLinks, attIdx, updIdx, nextId, failures, exitCode>>

\* createCollection returned: createDocumentStructure(channel, collection.id)
collectionCreated ==
    /\ pc = "collection" /\ Returned
    /\ stack' = <<Frame(channels[chanIdx].path, Last(calls).response, NULL)>>
    /\ pc' = "files"
    /\ UNCHANGED <<fs, applied, writes, phase, chanIdx, documentIdMap, documentUrlMap,
                   attachmentUrlMap, attachmentLinks, attIdx, updIdx, retries,
                   lastError, calls, nextId, failures, exitCode>>

\* fileLoop as a single pass over the listing: a folder is created, and
\* entered, where the listing shows it
fileLoopInListingOrder ==
    /\ pc = "files"
    /\ LET entries == readdir(fs, Top.dirPath)
       IN  IF Top.idx > Len(entries)
           THEN /\ stack' = [stack EXCEPT ![Len(stack)].idx = 1]
                /\ pc' = "dirs"
                /\ UNCHANGED <<calls, retries, lastError>>
           ELSE LET entry == entries[Top.idx]
                    parsed == parseDocumentContent(entry.content, basename(entry.path))
                IN  IF entry.kind = "file" /\ EndsWith(basename(entry.path), MD)
                    THEN /\ beginRequest(createDocument(parsed.title, parsed.content,
                                  Top.collectionId, Top.parentDocumentId,
                                  relative(entry.path)))
                         /\ pc' = "fileDoc"
                         /\ UNCHANGED stack
                    ELSE IF entry.kind = "dir" /\ ~isMediaFolder(fs, entry.path)
                    THEN /\ beginRequest(createDocument(basename(entry.path), <<>>,
                                  Top.collectionId, Top.parentDocumentId,
                                  relative(entry.path)))
                         /\ pc' = "dirDoc"
                         /\ UNCHANGED stack
                    ELSE /\ stack' = Advance
                         /\ UNCHANGED <<pc, calls, retries, lastError>>
    /\ UNCHANGED <<fs, applied, writes, phase, chanIdx, documentIdMap, documentUrlMap,
                   attachmentUrlMap, attachmentLinks, attIdx, updIdx, nextId,
                   failures, exitCode>>

\* the first loop of createDocumentStructure: the markdown files
fileLoop ==
    /\ pc = "files"
    /\ LET entries == readdir(fs, Top.dirPath)
       IN  IF Top.idx > Len(entries)
           THEN /\ stack' = [stack EXCEPT ![Len(stack)].idx = 1]
                /\ pc' = "dirs"
                /\ UNCHANGED <<calls, retries, lastError>>
           ELSE LET entry == entries[Top.idx]
                    parsed == parseDocumentContent(entry.content, basename(entry.path))
                IN  IF entry.kind = "file" /\ EndsWith(basename(entry.path), MD)
                    THEN /\ beginRequest(createDocument(parsed.title, parsed.content,
                                  Top.collectionId, Top.parentDocumentId,
                                  relative(entry.path)))
                         /\ pc' = "fileDoc"
                         /\ UNCHANGED stack
                    ELSE /\ stack' = Advance
                         /\ UNCHANGED <<pc, calls, retries, lastError>>
    /\ UNCHANGED <<fs, applied, writes, phase, chanIdx, documentIdMap, documentUrlMap,
                   attachmentUrlMap, attachmentLinks, attIdx, updIdx, nextId,
                   failures, exitCode>>

\* fileDocCreated with the registries keyed by entry.name instead of the
\* path relative to the export root
fileDocCreatedByName ==
    /\ pc = "fileDoc" /\ Returned
    /\ LET name == basename(readdir(fs, Top.dirPath)[Top.idx].path)
           id == Last(calls).response
       IN  /\ documentIdMap' = MapSet(documentIdMap, name, id)
           /\ documentUrlMap' = MapSet(documentUrlMap, name, DocUrl(id))
           /\ writes' = writes \o <<Write("documentIdMap", name, <<id>>),
                                     Write("documentUrlMap", name, DocUrl(id))>>
    /\ stack' = Advance
    /\ pc' = "files"
    /\ UNCHANGED <<fs, applied, phase, chanIdx, attachmentUrlMap, attachmentLinks, attIdx,
                   updIdx, retries, lastError, calls, nextId, failures, exitCode>>

\* createDocument returned for a markdown file: the two registries are set
fileDocCreated ==
    /\ pc = "fileDoc" /\ Returned
    /\ LET filePath == readdir(fs, Top.dirPath)[Top.idx].path
           relativePath == relative(filePath)
           id == Last(calls).response
       IN  /\ documentIdMap' = MapSet(documentIdMap, relativePath, id)
           /\ documentUrlMap' = MapSet(documentUrlMap, relativePath, DocUrl(id))
    /\ stack' = Advance
    /\ pc' = "files"
    /\ LET relativePath == relative(readdir(fs, Top.dirPath)[Top.idx].path)
           id == Last(calls).response
       IN  writes' = writes \o <<Write("documentIdMap", relativePath, <<id>>),
                                 Write("documentUrlMap", relativePath, DocUrl(id))>>
    /\ UNCHANGED <<fs, applied, phase, chanIdx, attachmentUrlMap, attachmentLinks, attIdx,
                   updIdx, retries, lastError, calls, nextId, failures, exitCode>>

\* the second loop of createDocumentStructure: the directories
dirLoop ==
    /\ pc = "dirs"
    /\ Top.idx <= Len(readdir(fs, Top.dirPath))
    /\ LET entry == readdir(fs, Top.dirPath)[Top.idx]
       IN  IF entry.kind = "dir" /\ ~isMediaFolder(fs, entry.path)
           THEN /\ beginRequest(createDocument(basename(entry.path), <<>>,
                         Top.collectionId, Top.parentDocumentId,
                         relative(entry.path)))
                /\ pc' = "dirDoc"
                /\ UNCHANGED stack
           ELSE /\ stack' = Advance
                /\ UNCHANGED <<pc, calls, retries, lastError>>
    /\ UNCHANGED <<fs, applied, writes, phase, chanIdx, documentIdMap, documentUrlMap,
                   attachmentUrlMap, attachmentLinks, attIdx, updIdx, nextId,
                   failures, exitCode>>

\* dirDocCreated without documentUrlMap.set
dirDocCreatedNoUrl ==
    /\ pc = "dirDoc" /\ Returned
    /\ LET fullDirPath == readdir(fs, Top.dirPath)[Top.idx].path
           relativePath == relative(fullDirPath)
           id == Last(calls).response
       IN  /\ documentIdMap' = MapSet(documentIdMap, relativePath, id)
           /\ writes' = Append(writes, Write("documentIdMap", relativePath, <<id>>))
           /\ stack' = Append(stack, Frame(fullDirPath, Top.collectionId, id))
    /\ pc' = "files"
    /\ UNCHANGED <<fs, applied, phase, chanIdx, documentUrlMap, attachmentUrlMap,
                   attachmentLinks, attIdx, updIdx, retries, lastError, calls,
                   nextId, failures, exitCode>>

\* dirDocCreated with the recursion given the caller's own parent instead
\* of the new container document
dirDocCreatedSameParent ==
    /\ pc = "dirDoc" /\ Returned
    /\ LET fullDirPath == readdir(fs, Top.dirPath)[Top.idx].path
           relativePath == relative(fullDirPath)
           id == Last(calls).response
       IN  /\ documentIdMap' = MapSet(documentIdMap, relativePath, id)
           /\ documentUrlMap' = MapSet(documentUrlMap, relativePath, DocUrl(id))
           /\ writes' = writes \o <<Write("documentIdMap", relativePath, <<id>>),
                                     Write("documentUrlMap", relativePath, DocUrl(id))>>
           /\ stack' = Append(stack, Frame(fullDirPath, Top.collectionId,
                                           Top.parentDocumentId))
    /\ pc' = "files"
    /\ UNCHANGED <<fs, applied, phase, chanIdx, attachmentUrlMap, attachmentLinks, attIdx,
                   updIdx, retries, lastError, calls, nextId, failures, exitCode>>

\* createDocument returned for a directory: it is registered, and
\* createDocumentStructure is called on it with the new document as parent
dirDocCreated ==
    /\ pc = "dirDoc" /\ Returned
    /\ LET fullDirPath == readdir(fs, Top.dirPath)[Top.idx].path
           relativePath == relative(fullDirPath)
           id == Last(calls).response
       IN  /\ documentIdMap' = MapSet(documentIdMap, relativePath, id)
           /\ documentUrlMap' = MapSet(documentUrlMap, relativePath, DocUrl(id))
           /\ stack' = Append(stack, Frame(fullDirPath, Top.collectionId, id))
    /\ pc' = "files"
    /\ LET relativePath == relative(readdir(fs, Top.dirPath)[Top.idx].path)
           id == Last(calls).response
       IN  writes' = writes \o <<Write("documentIdMap", relativePath, <<id>>),
                                 Write("documentUrlMap", relativePath, DocUrl(id))>>
    /\ UNCHANGED <<fs, applied, phase, chanIdx, attachmentUrlMap, attachmentLinks, attIdx,
                   updIdx, retries, lastError, calls, nextId, failures, exitCode>>

\* structureReturn with phase 2 entered as soon as the first channel's
\* createDocumentStructure has returned
structureReturnEarly ==
    /\ pc = "dirs"
    /\ Top.idx > Len(readdir(fs, Top.dirPath))
    /\ IF Len(stack) > 1
       THEN /\ stack' = [SubSeq(stack, 1, Len(stack) - 1)
                            EXCEPT ![Len(stack) - 1].idx = @ + 1]
            /\ UNCHANGED <<pc, phase, chanIdx>>
       ELSE /\ stack' = <<>>
            /\ chanIdx' = chanIdx + 1
            /\ pc' = "scan"
            /\ phase' = "UploadingAttachments"
    /\ UNCHANGED <<fs, applied, writes, documentIdMap, documentUrlMap, attachmentUrlMap,
                   attachmentLinks, attIdx, updIdx, retries, lastError, calls,
                   nextId, failures, exitCode>>

\* createDocumentStructure returns: to the directory loop of its caller, or
\* to the channel loop of migrate()
structureReturn ==
    /\ pc = "dirs"
    /\ Top.idx > Len(readdir(fs, Top.dirPath))
    /\ IF Len(stack) > 1
       THEN /\ stack' = [SubSeq(stack, 1, Len(stack) - 1)
                            EXCEPT ![Len(stack) - 1].idx = @ + 1]
            /\ UNCHANGED <<pc, chanIdx>>
       ELSE /\ stack' = <<>>
            /\ chanIdx' = chanIdx + 1
            /\ pc' = "channels"
    /\ UNCHANGED <<fs, applied, writes, phase, documentIdMap, documentUrlMap, attachmentUrlMap,
                   attachmentLinks, attIdx, updIdx, retries, lastError, calls,
                   nextId, failures, exitCode>>

\* structureAbort without process.exit(1): the error is logged and the
\* process ends with status 0
structureAbortExitZero ==
    /\ pc \in {"collection", "fileDoc", "dirDoc"} /\ Raised
    /\ pc' = "failed"
    /\ phase' = "Failed"
    /\ exitCode' = "0"
    /\ UNCHANGED <<fs, applied, writes, chanIdx, stack, documentIdMap, documentUrlMap,
                   attachmentUrlMap, attachmentLinks, attIdx, updIdx, retries,
                   lastError, calls, nextId, failures>>

\* makeRequest threw in phase 1: nothing catches it before migrate()'s own
\* catch, which rethrows, and the process exits with status 1
structureAbort ==
    /\ pc \in {"collection", "fileDoc", "dirDoc"} /\ Raised
    /\ pc' = "failed"
    /\ phase' = "Failed"
    /\ exitCode' = "1"
    /\ UNCHANGED <<fs, applied, writes, chanIdx, stack, documentIdMap, documentUrlMap,
                   attachmentUrlMap, attachmentLinks, attIdx, updIdx, retries,
                   lastError, calls, nextId, failures>>

(***************************************************************************)
(* Phase 2: the attachment loop of migrate() and uploadAttachment          *)
(***************************************************************************)

\* const { attachmentLinks } = await scanDirectory(SLITE_BACKUP_PATH)
scanForAttachments ==
    /\ pc = "scan"
    /\ attachmentLinks' = scanDirectory(fs, SLITE_BACKUP_PATH).attachmentLinks
    /\ attIdx' = 1
    /\ pc' = "attachments"
    /\ UNCHANGED <<fs, applied, writes, phase, chanIdx, stack, documentIdMap, documentUrlMap,
                   attachmentUrlMap, updIdx, retries, lastError, calls, nextId,
                   failures, exitCode>>

\* attachmentLoop without the test that the file exists
attachmentLoopAnyFile ==
    /\ pc = "attachments"
    /\ IF attIdx > Len(attachmentLinks)
       THEN /\ pc' = "updates"
            /\ phase' = "RewritingLinks"
            /\ updIdx' = 1
            /\ UNCHANGED <<attIdx, calls>>
       ELSE LET link == attachmentLinks[attIdx].k
                sourcePath == attachmentLinks[attIdx].v
                documentId == MapGet(documentIdMap, relative(sourcePath))
                fullPath == resolveAttachmentPath(link, sourcePath)
            IN  IF documentId = NULL
                THEN /\ attIdx' = attIdx + 1
                     /\ UNCHANGED <<pc, phase, updIdx, calls>>
                ELSE /\ calls' = Append(calls,
                            Call("attachments.create", link, basename(fullPath),
                                 <<mimeType(basename(fullPath))>>, NULL, NULL,
                                 documentId))
                     /\ pc' = "attCreate"
                     /\ UNCHANGED <<attIdx, phase, updIdx>>
    /\ UNCHANGED <<fs, applied, writes, chanIdx, stack, documentIdMap, documentUrlMap,
                   attachmentUrlMap, attachmentLinks, retries, lastError, nextId,
                   failures, exitCode>>

\* for (const [link, sourcePath] of attachmentLinks.entries()): the next
\* link, up to the first request of uploadAttachment, or the end of phase 2
attachmentLoop ==
    /\ pc = "attachments"
    /\ IF attIdx > Len(attachmentLinks)
       THEN /\ pc' = "updates"
            /\ phase' = "RewritingLinks"
            /\ updIdx' = 1
            /\ UNCHANGED <<attIdx, calls>>
       ELSE LET link == attachmentLinks[attIdx].k
                sourcePath == attachmentLinks[attIdx].v
                documentId == MapGet(documentIdMap, relative(sourcePath))
                fullPath == resolveAttachmentPath(link, sourcePath)
            IN  IF documentId = NULL \/ ~isFile(fs, fullPath)
                THEN /\ attIdx' = attIdx + 1
                     /\ UNCHANGED <<pc, phase, updIdx, calls>>
                ELSE /\ calls' = Append(calls,
                            Call("attachments.create", link, basename(fullPath),
                                 <<mimeType(basename(fullPath))>>, NULL, NULL,
                                 documentId))
                     /\ pc' = "attCreate"
                     /\ UNCHANGED <<attIdx, phase, updIdx>>
    /\ UNCHANGED <<fs, applied, writes, chanIdx, stack, documentIdMap, documentUrlMap,
                   attachmentUrlMap, attachmentLinks, retries, lastError, nextId,
                   failures, exitCode>>

\* step 1 of uploadAttachment answered ok with an upload URL: step 2 begins
attachmentCreateOk ==
    /\ pc = "attCreate" /\ Pending
    /\ nextId' = nextId + 1
    /\ calls' = Append(
           SetLast(calls, [Last(calls) EXCEPT !.attempts = @ + 1,
                                             !.outcome = "returned",
                                             !.response = IdOf(nextId + 1)]),
           Call("upload", Last(calls).src, Last(calls).title, Last(calls).text,
                NULL, NULL, IdOf(nextId + 1)))
    /\ pc' = "attUpload"
    /\ UNCHANGED <<fs, applied, writes, phase, chanIdx, stack, documentIdMap, documentUrlMap,
                   attachmentUrlMap, attachmentLinks, attIdx, updIdx, retries,
                   lastError, failures, exitCode>>

\* step 1 failed (the fetch threw, the response was not ok, or it held no
\* upload URL): uploadAttachment rethrows, the loop's catch logs, next link
attachmentCreateError ==
    /\ pc = "attCreate" /\ Pending
    /\ failures < MaxFailures
    /\ \E e \in FetchErrors \cup {"noUploadUrl"} : lastError' = e
    /\ failures' = failures + 1
    /\ calls' = SetLast(calls, [Last(calls) EXCEPT !.attempts = @ + 1,
                                                  !.outcome = "raised"])
    /\ attIdx' = attIdx + 1
    /\ pc' = "attachments"
    /\ UNCHANGED <<fs, applied, writes, phase, chanIdx, stack, documentIdMap, documentUrlMap,
                   attachmentUrlMap, attachmentLinks, updIdx, retries, nextId,
                   exitCode>>

\* uploadOk with the url registered in documentUrlMap, not attachmentUrlMap
uploadOkIntoDocumentUrlMap ==
    /\ pc = "attUpload" /\ Pending
    /\ calls' = SetLast(calls, [Last(calls) EXCEPT !.attempts = @ + 1,
                                                  !.outcome = "returned"])
    /\ documentUrlMap' = MapSet(documentUrlMap, attachmentLinks[attIdx].k,
                                AttachmentUrl(Last(calls).id))
    /\ attIdx' = attIdx + 1
    /\ pc' = "attachments"
    /\ writes' = Append(writes, Write("documentUrlMap", attachmentLinks[attIdx].k,
                                       AttachmentUrl(Last(calls).id)))
    /\ UNCHANGED <<fs, applied, phase, chanIdx, stack, documentIdMap, attachmentUrlMap,
                   attachmentLinks, updIdx, retries, lastError, nextId, failures,
                   exitCode>>

\* step 2 answered ok: uploadAttachment returns the attachment's url and the
\* loop registers it under the literal link
uploadOk ==
    /\ pc = "attUpload" /\ Pending
    /\ calls' = SetLast(calls, [Last(calls) EXCEPT !.attempts = @ + 1,
                                                  !.outcome = "returned"])
    /\ attachmentUrlMap' = MapSet(attachmentUrlMap, attachmentLinks[attIdx].k,
                                  AttachmentUrl(Last(calls).id))
    /\ attIdx' = attIdx + 1
    /\ pc' = "attachments"
    /\ writes' = Append(writes, Write("attachmentUrlMap", attachmentLinks[attIdx].k,
                                       AttachmentUrl(Last(calls).id)))
    /\ UNCHANGED <<fs, applied, phase, chanIdx, stack, documentIdMap, documentUrlMap,
                   attachmentLinks, updIdx, retries, lastError, nextId, failures,
                   exitCode>>

\* uploadError with the rethrown error not caught by the loop
uploadErrorFatal ==
    /\ pc = "attUpload" /\ Pending
    /\ failures < MaxFailures
    /\ \E e \in FetchErrors : lastError' = e
    /\ failures' = failures + 1
    /\ calls' = SetLast(calls, [Last(calls) EXCEPT !.attempts = @ + 1,
                                                  !.outcome = "raised"])
    /\ pc' = "failed"
    /\ phase' = "Failed"
    /\ exitCode' = "1"
    /\ UNCHANGED <<fs, applied, writes, chanIdx, stack, documentIdMap, documentUrlMap,
                   attachmentUrlMap, attachmentLinks, attIdx, updIdx, retries,
                   nextId>>

\* step 2 failed: uploadAttachment rethrows, the loop's catch logs, next link
uploadError ==
    /\ pc = "attUpload" /\ Pending
    /\ failures < MaxFailures
    /\ \E e \in FetchErrors : lastError' = e
    /\ failures' = failures + 1
    /\ calls' = SetLast(calls, [Last(calls) EXCEPT !.attempts = @ + 1,
                                                  !.outcome = "raised"])
    /\ attIdx' = attIdx + 1
    /\ pc' = "attachments"
    /\ UNCHANGED <<fs, applied, writes, phase, chanIdx, stack, documentIdMap, documentUrlMap,
                   attachmentUrlMap, attachmentLinks, updIdx, retries, nextId,
                   exitCode>>

(***************************************************************************)
(* Phase 3: the update loop of migrate()                                   *)
(***************************************************************************)

\* updateLoop with the entry tested by its name only, not by stats.isFile()
updateLoopByName ==
    /\ pc = "updates"
    /\ IF updIdx > Len(documentIdMap)
       THEN /\ pc' = "done"
            /\ phase' = "Done"
            /\ exitCode' = "0"
            /\ UNCHANGED <<updIdx, calls, retries, lastError>>
       ELSE LET docPath == documentIdMap[updIdx].k
                docId == documentIdMap[updIdx].v
                fullPath == join(SLITE_BACKUP_PATH, docPath)
            IN  IF ~EndsWith(docPath, MD)
                THEN /\ updIdx' = updIdx + 1
                     /\ UNCHANGED <<pc, phase, exitCode, calls, retries, lastError>>
                ELSE /\ beginRequest(Call("documents.update", docPath, <<>>,
                            updateMarkdownLinks(readFile(fs, fullPath),
                                                documentUrlMap, attachmentUrlMap),
                            NULL, NULL, docId))
                     /\ pc' = "update"
                     /\ UNCHANGED <<updIdx, phase, exitCode>>
    /\ UNCHANGED <<fs, applied, writes, chanIdx, stack, documentIdMap, documentUrlMap,
                   attachmentUrlMap, attachmentLinks, attIdx, nextId, failures>>

\* for (const [docPath, docId] of documentIdMap.entries()): the next entry,
\* up to makeRequest('documents.update'), or the end of the run
updateLoop ==
    /\ pc = "updates"
    /\ IF updIdx > Len(documentIdMap)
       THEN /\ pc' = "done"
            /\ phase' = "Done"
            /\ exitCode' = "0"
            /\ UNCHANGED <<updIdx, calls, retries, lastError>>
       ELSE LET docPath == documentIdMap[updIdx].k
                docId == documentIdMap[updIdx].v
                fullPath == join(SLITE_BACKUP_PATH, docPath)
            IN  IF ~isFile(fs, fullPath) \/ ~EndsWith(docPath, MD)
                THEN /\ updIdx' = updIdx + 1
                     /\ UNCHANGED <<pc, phase, exitCode, calls, retries, lastError>>
                ELSE /\ beginRequest(Call("documents.update", docPath, <<>>,
                            updateMarkdownLinks(readFile(fs, fullPath),
                                                documentUrlMap, attachmentUrlMap),
                            NULL, NULL, docId))
                     /\ pc' = "update"
                     /\ UNCHANGED <<updIdx, phase, exitCode>>
    /\ UNCHANGED <<fs, applied, writes, chanIdx, stack, documentIdMap, documentUrlMap,
                   attachmentUrlMap, attachmentLinks, attIdx, nextId, failures>>

\* updateSettled with no try/catch around the loop body
updateSettledNoCatch ==
    /\ pc = "update" /\ (Returned \/ Raised)
    /\ IF Raised
       THEN /\ pc' = "failed"
            /\ phase' = "Failed"
            /\ exitCode' = "1"
            /\ UNCHANGED updIdx
       ELSE /\ updIdx' = updIdx + 1
            /\ pc' = "updates"
            /\ UNCHANGED <<phase, exitCode>>
    /\ UNCHANGED <<fs, applied, writes, chanIdx, stack, documentIdMap, documentUrlMap,
                   attachmentUrlMap, attachmentLinks, attIdx, retries, lastError,
                   calls, nextId, failures>>

\* makeRequest returned, or threw into the loop's catch: the next entry
updateSettled ==
    /\ pc = "update" /\ (Returned \/ Raised)
    /\ updIdx' = updIdx + 1
    /\ pc' = "updates"
    /\ UNCHANGED <<fs, applied, writes, phase, chanIdx, stack, documentIdMap, documentUrlMap,
                   attachmentUrlMap, attachmentLinks, attIdx, retries, lastError,
                   calls, nextId, failures, exitCode>>

Next ==
    \/ migrateStart
    \/ channelLoop
    \/ fetchOk
    \/ fetchError
    \/ makeRequestThrow
    \/ collectionCreated
    \/ fileLoop
    \/ fileDocCreated
    \/ dirLoop
    \/ dirDocCreated
    \/ structureReturn
    \/ structureAbort
    \/ scanForAttachments
    \/ attachmentLoop
    \/ attachmentCreateOk
    \/ attachmentCreateError
    \/ uploadOk
    \/ uploadError
    \/ updateLoop
    \/ updateSettled

Spec == Init /\ [][Next]_vars

\* the steps that read no file content
LightSteps ==
    \/ migrateStart \/ channelLoop \/ fetchOk \/ fetchError \/ makeRequestThrow
    \/ collectionCreated \/ fileDocCreated \/ dirLoop \/ dirDocCreated
    \/ structureReturn \/ structureAbort \/ attachmentLoop \/ attachmentCreateOk
    \/ attachmentCreateError \/ uploadOk \/ uploadError \/ updateSettled

\* a run goes on while it can: every await of migrate() is answered, by a
\* result or by an error, and the code after it runs.  For the three steps
\* that read file content weak fairness is written out, each being enabled
\* exactly at its own position: WF_vars(A) is []<>~ENABLED <<A>>_vars \/
\* []<><<A>>_vars.
FairSpec ==
    /\ Spec
    /\ WF_vars(LightSteps)
    /\ ([]<>(pc # "files") \/ []<><<fileLoop>>_vars)
    /\ ([]<>(pc # "scan") \/ []<><<scanForAttachments>>_vars)
    /\ ([]<>(pc # "updates") \/ []<><<updateLoop>>_vars)

(***************************************************************************)
(* parseDocumentContent and updateMarkdownLinks on their own: the content  *)
(* and the registries are drawn from bounded sets, no run is under way     *)
(***************************************************************************)

\* everything a run of migrate() changes
runVars ==
    <<pc, phase, chanIdx, stack, documentIdMap, documentUrlMap, attachmentUrlMap,
      attachmentLinks, attIdx, updIdx, retries, lastError, calls, nextId,
      failures, exitCode, writes>>

\* migrate() has not been entered
NotStarted ==
    /\ pc = "start"
    /\ phase = "CreatingStructure"
    /\ chanIdx = 1
    /\ stack = <<>>
    /\ documentIdMap = EmptyMap
    /\ documentUrlMap = EmptyMap
    /\ attachmentUrlMap = EmptyMap
    /\ attachmentLinks = EmptyMap
    /\ attIdx = 1
    /\ updIdx = 1
    /\ retries = 0
    /\ lastError = NULL
    /\ calls = <<>>
    /\ nextId = 0
    /\ failures = 0
    /\ exitCode = NULL
    /\ writes = <<>>

\* the metadata of a file cut short: fewer than six lines
ShortMeta == <<"meta", NL, NL>>

Preambles == {Meta, ShortMeta}

AMd == <<"c", SEP, "a", ".", "md">>

\* a picture whose name begins with "http"
HttpxPng == <<"http", "x", ".", "png">>

\* the pieces a document body is put together from: headings, text, blank
\* lines, and links of every kind the two regular expressions tell apart
Segments ==
    { <<"#", " ", "A", NL>>,
      <<" ", "#", "B", NL, NL>>,
      <<"t">>,
      <<"t", NL>>,
      <<NL>>,
      <<" ">>,
      Link(<<"t">>, AMd),
      Link(<<"t">>, <<SEP, "c", SEP, "a">>),
      Link(<<"u">>, XPng),
      Image(<<"i">>, XPng),
      Image(<<>>, XPng),
      Link(<<"t">>, <<"http", ":", SEP, SEP, "e">>),
      Link(<<"t">>, HttpxPng),
      Link(<<"t">>, DocUrl("2")) }

\* the longest body, in segments
MaxSegments == 2

Bodies ==
    UNION {[1..n -> Segments] : n \in 0..MaxSegments}

RECURSIVE Concat(_)
Concat(parts) == IF parts = <<>> THEN <<>> ELSE Head(parts) \o Concat(Tail(parts))

Contents == {pre \o Concat(body) : pre \in Preambles, body \in Bodies}

\* documentUrlMap after a run: empty, with c/a.md, and with a second channel
\* "doc" whose file is named like the id the service gave c/a.md
DocRegistries ==
    { EmptyMap,
      <<[k |-> AMd, v |-> DocUrl("2")]>>,
      <<[k |-> AMd, v |-> DocUrl("2")],
        [k |-> <<"doc", SEP, "2", ".", "md">>, v |-> DocUrl("4")]>> }

\* attachmentUrlMap after a run: empty, with x.png uploaded, and with
\* httpx.png uploaded as well
AttRegistries ==
    { EmptyMap,
      <<[k |-> XPng, v |-> AttachmentUrl("3")]>>,
      <<[k |-> XPng, v |-> AttachmentUrl("3")],
        [k |-> HttpxPng, v |-> AttachmentUrl("5")]>> }

InitContent ==
    /\ fs = <<>>
    /\ NotStarted
    /\ \E content \in Contents, docUrls \in DocRegistries, attUrls \in AttRegistries :
           applied = [NothingApplied EXCEPT !.content = content,
                                            !.docUrls = docUrls,
                                            !.attUrls = attUrls]

\* parseDocumentContent(rawContent, entry.name), as createDocumentStructure
\* calls it
applyParse ==
    /\ applied.parsed = <<>>
    /\ applied' = [applied EXCEPT !.parsed =
                      <<parseDocumentContent(applied.content, <<"a", ".", "md">>)>>]
    /\ UNCHANGED <<fs, runVars>>

\* updateMarkdownLinks(content), on the raw content and then once more on
\* what it returned
applyUpdate ==
    /\ Len(applied.updated) < 2
    /\ applied' = [applied EXCEPT !.updated =
                      Append(@, updateMarkdownLinks(
                                    IF @ = <<>> THEN applied.content ELSE @[1],
                                    applied.docUrls, applied.attUrls))]
    /\ UNCHANGED <<fs, runVars>>

\* the replace of updateMarkdownLinks alone, on what updateMarkdownLinks
\* returned
applyReplace ==
    /\ applied.updated # <<>>
    /\ applied.replaced = <<>>
    /\ applied' = [applied EXCEPT !.replaced =
                      <<replaceLinks(applied.updated[1], 1,
                                     applied.docUrls, applied.attUrls)>>]
    /\ UNCHANGED <<fs, runVars>>

\* scanMarkdownLinks(content, fullPath), as scanDirectory calls it
applyScan ==
    /\ applied.scanned = <<>>
    /\ applied' = [applied EXCEPT !.scanned =
                      <<scanMarkdownLinks(applied.content, P(AMd))>>]
    /\ UNCHANGED <<fs, runVars>>

NextContent ==
    \/ applyParse
    \/ applyUpdate
    \/ applyReplace
    \/ applyScan

SpecContent == InitContent /\ [][NextContent]_vars

(***************************************************************************)
(* isMediaFolder on its own: the directory and the files in it are drawn   *)
(* from bounded sets                                                       *)
(***************************************************************************)

\* directory names: plain, "media_" alone, with "media_" in front, and with
\* "media_" not in front
DirNames == {<<"d">>, <<"media_">>, <<"media_", "x">>, <<"x", "media_">>}

\* file names: every media extension, upper case, another extension, no
\* extension, a dot at the end, a dot in front, two extensions
FileNames ==
    { <<"x", ".", "png">>, <<"x", ".", "PNG">>, <<"y", ".", "jpg">>,
      <<"y", ".", "JPG">>, <<"y", ".", "jpeg">>, <<"z", ".", "gif">>,
      <<"w", ".", "pdf">>, <<"a", ".", "md">>, <<"README">>, <<"png">>,
      <<"x", ".">>, <<".", "png">>, <<"x", ".", "tar", ".", "png">>,
      <<"x", ".", "png", ".", "md">> }

\* the most files a directory is given
MaxFiles == 2

\* the listings of up to MaxFiles files, no name twice
FileListings ==
    UNION {{l \in [1..n -> FileNames] : \A i, j \in 1..n : l[i] = l[j] => i = j} :
               n \in 0..MaxFiles}

\* an export with the directory c/<name>, the files listed in it, and, when
\* asked for, a sub-folder in it that holds a document
Listing(name, files, withFolder) ==
    << Dir(<<"c">>), Dir(<<"c", SEP>> \o name) >>
        \o [i \in 1..Len(files) |-> File(<<"c", SEP>> \o name \o <<SEP>> \o files[i], <<>>)]
        \o (IF withFolder
            THEN << Dir(<<"c", SEP>> \o name \o <<SEP, "s">>),
                    File(<<"c", SEP>> \o name \o <<SEP, "s", SEP, "a", ".", "md">>, Meta) >>
            ELSE <<>>)

Listings ==
    {Listing(name, files, withFolder) :
         name \in DirNames, files \in FileListings, withFolder \in BOOLEAN}

InitClassify ==
    /\ fs \in Listings
    /\ NotStarted
    /\ applied = NothingApplied

\* await isMediaFolder(fullDirPath), for a directory not asked about yet
classify ==
    /\ \E i \in 1..Len(fs) :
           /\ fs[i].kind = "dir"
           /\ ~MapHas(applied.classified, fs[i].path)
           /\ applied' = [applied EXCEPT !.classified =
                             Append(@, [k |-> fs[i].path,
                                        v |-> isMediaFolder(fs, fs[i].path)])]
    /\ UNCHANGED <<fs, runVars>>

NextClassify == classify

SpecClassify == InitClassify /\ [][NextClassify]_vars

(***************************************************************************)
(* Properties                                                              *)
(***************************************************************************)

CreateCalls == {"collections.create", "documents.create"}

AttachmentCalls == {"attachments.create", "upload"}

UpdateCalls == {"documents.update"}

\* the positions migrate() is at once the channel loop has ended
AfterStructure ==
    {"scan", "attachments", "attCreate", "attUpload", "updates", "update", "done"}

\* the positions migrate() is at once the attachment loop has ended
AfterAttachments == {"updates", "update", "done"}

\* C1: Phase barrier.  Phase-2 work (the scan, attachments.create, the
\* upload) and phase-3 work (documents.update) begin only when
\* createDocumentStructure has returned for every channel directory: no
\* collections.create or documents.create call follows an attachment or
\* update call, and no documents.update is made before the attachment loop
\* has ended.
C1_PhaseBarrier ==
    /\ pc \in AfterStructure =>
           /\ stack = <<>>
           /\ chanIdx > Len(channels)
    /\ (\E i \in 1..Len(calls) : calls[i].endpoint \in AttachmentCalls \cup UpdateCalls)
           => pc \in AfterStructure
    /\ \A i, j \in 1..Len(calls) :
           (i < j /\ calls[i].endpoint \in AttachmentCalls \cup UpdateCalls)
               => calls[j].endpoint \notin CreateCalls
    /\ (\E i \in 1..Len(calls) : calls[i].endpoint \in UpdateCalls)
           => /\ pc \in AfterAttachments
              /\ attIdx > Len(attachmentLinks)
    /\ \A i, j \in 1..Len(calls) :
           (i < j /\ calls[i].endpoint \in UpdateCalls)
               => calls[j].endpoint \in UpdateCalls

\* a run with two channels in which all three phases have made calls
C1_Witness ==
    /\ pc = "update"
    /\ Cardinality({i \in 1..Len(calls) : calls[i].endpoint = "collections.create"}) = 2
    /\ \E i \in 1..Len(calls) : calls[i].endpoint = "upload"

\* the registry a write names
RegistryOf(map) ==
    CASE map = "documentIdMap" -> documentIdMap
      [] map = "documentUrlMap" -> documentUrlMap
      [] map = "attachmentUrlMap" -> attachmentUrlMap

\* what the registry holds for the key of write w, in the shape writes keep
Held(w) ==
    IF w.map = "documentIdMap"
    THEN <<MapGet(RegistryOf(w.map), w.key)>>
    ELSE MapGet(RegistryOf(w.map), w.key)

\* C2: Registry write-once.  For each of documentIdMap, documentUrlMap and
\* attachmentUrlMap every key is written at most once, and a key that was
\* written still holds the value written then: it is never overwritten and
\* never deleted.
C2_WriteOnce ==
    /\ \A i, j \in 1..Len(writes) :
           (writes[i].map = writes[j].map /\ writes[i].key = writes[j].key) => i = j
    /\ \A i \in 1..Len(writes) :
           /\ MapHas(RegistryOf(writes[i].map), writes[i].key)
           /\ Held(writes[i]) = writes[i].val
    /\ \A m \in {"documentIdMap", "documentUrlMap", "attachmentUrlMap"} :
           Len(RegistryOf(m)) = Cardinality({i \in 1..Len(writes) : writes[i].map = m})

\* all three registries have been written, two of them more than once
C2_Witness ==
    /\ pc = "done"
    /\ Len(documentIdMap) >= 3
    /\ Len(attachmentUrlMap) >= 1

\* the directories of the export that classify as media folders
MediaDirs ==
    {fs[i].path : i \in {k \in 1..Len(fs) : fs[k].kind = "dir" /\ isMediaFolder(fs, fs[k].path)}}

\* path p is directory d or lies inside it, at any depth
Within(p, d) == p = d \/ StartsWith(p, d \o <<SEP>>)

\* C3: Media folders are never document sources.  For every directory that
\* classifies as a media folder, at any depth, a channel directory included:
\* no documents.create call is made for it, it has no registry entry, and
\* nothing inside it is the source of a created document.
C3_MediaNeverSource ==
    \A d \in MediaDirs :
        /\ \A i \in 1..Len(calls) :
               calls[i].endpoint = "documents.create" => ~Within(P(calls[i].src), d)
        /\ relative(d) \notin MapKeys(documentIdMap) \cup MapKeys(documentUrlMap)

\* the link targets a text holds, as the Link Scanner finds them
TargetsIn(text) ==
    LET paths == matchAllPaths(text, 1) IN {paths[i] : i \in 1..Len(paths)}

\* the run has reached Done and every documents.update succeeded
DoneAllUpdated ==
    /\ pc = "done"
    /\ \A i \in 1..Len(calls) :
           calls[i].endpoint = "documents.update" => calls[i].outcome = "returned"

\* C4: Document-link rewriting.  After a run that reaches Done with every
\* documents.update succeeding, for every migrated markdown document D and
\* every link of D whose target, a path relative to D, names another
\* migrated markdown file T, the body pushed for D has that target replaced
\* by T's registered URL /doc/<id of T>.
C4_DocLinksRewritten ==
    DoneAllUpdated =>
        \A i \in 1..Len(calls) :
            calls[i].endpoint = "documents.update" =>
                LET D == P(calls[i].src)
                    links == scanMarkdownLinks(readFile(fs, D), D).documentLinks
                IN  \A t \in MapKeys(links) :
                        LET T == relative(resolve(dirname(D), decodeURIComponent(t)))
                        IN  (T # calls[i].src /\ MapHas(documentIdMap, T) /\ isFile(fs, P(T)))
                                => /\ DocUrl(MapGet(documentIdMap, T)) \in TargetsIn(calls[i].text)
                                   /\ t \notin TargetsIn(calls[i].text)

\* C5: Attachment-link rewriting.  For every link target that
\* scanMarkdownLinks records as an attachment link of a document, with or
\* without "!" and with any link text, and that attachmentUrlMap holds a URL
\* for, the body updateMarkdownLinks produces for the document has the
\* target replaced by that URL.
C5_AttachmentLinksRewritten ==
    \A i \in 1..Len(calls) :
        calls[i].endpoint = "documents.update" =>
            LET D == P(calls[i].src)
                links == scanMarkdownLinks(readFile(fs, D), D).attachmentLinks
            IN  \A t \in MapKeys(links) :
                    MapHas(attachmentUrlMap, t)
                        => /\ MapGet(attachmentUrlMap, t) \in TargetsIn(calls[i].text)
                           /\ t \notin TargetsIn(calls[i].text)

\* the markdown files of the export
MarkdownFiles ==
    {fs[i].path : i \in {k \in 1..Len(fs) :
                            fs[k].kind = "file" /\ EndsWith(fs[k].path, MD)}}

\* the directories below the channels that are not media folders
ContainerDirs ==
    {fs[i].path : i \in {k \in 1..Len(fs) :
                            /\ fs[k].kind = "dir"
                            /\ dirname(fs[k].path) # SLITE_BACKUP_PATH
                            /\ ~isMediaFolder(fs, fs[k].path)}}

\* the two document registries hold exactly the keys of the paths in S, one
\* entry each, and every URL is /doc/ followed by the id of the same key
RegistryIs(S) ==
    /\ MapKeys(documentIdMap) = {relative(x) : x \in S}
    /\ Len(documentIdMap) = Cardinality(S)
    /\ MapKeys(documentUrlMap) = MapKeys(documentIdMap)
    /\ Len(documentUrlMap) = Cardinality(S)
    /\ \A key \in MapKeys(documentIdMap) :
           MapGet(documentUrlMap, key) = <<SEP, "doc", SEP, MapGet(documentIdMap, key)>>

\* C6 as stated: when phase 1 completes without error the registry holds
\* exactly one entry for each markdown file of the export and each non-media
\* directory, and no others.
C6_AsClaimed == pc \in AfterStructure => RegistryIs(MarkdownFiles \cup ContainerDirs)

\* the markdown files and non-media directories found from directory
\* dirPath through non-media directories only
RECURSIVE ReachedFrom(_)
ReachedFrom(dirPath) ==
    LET entries == readdir(fs, dirPath)
        files == {entries[i].path : i \in {k \in 1..Len(entries) :
                      entries[k].kind = "file" /\ EndsWith(entries[k].path, MD)}}
        dirs == {entries[i].path : i \in {k \in 1..Len(entries) :
                      entries[k].kind = "dir" /\ ~isMediaFolder(fs, entries[k].path)}}
    IN  files \cup dirs \cup UNION {ReachedFrom(d) : d \in dirs}

ReachedFromChannels ==
    UNION {ReachedFrom(channels[i].path) :
               i \in {k \in 1..Len(channels) : channels[k].kind = "dir"}}

\* C6: Registry completeness (amended).  When phase 1 completes without
\* error, documentIdMap holds exactly one entry for each markdown file and
\* each non-media directory that is reached from a channel directory through
\* non-media directories only, and no other entry; documentUrlMap has the
\* same keys, each with the value /doc/<id of that key>.
C6_RegistryComplete == pc \in AfterStructure => RegistryIs(ReachedFromChannels)

\* phase 1 has completed on an export with a markdown file that is not
\* reached (it lies in a media folder) and with files and folders that are
C6_Witness ==
    /\ pc = "scan"
    /\ MarkdownFiles \ ReachedFromChannels # {}
    /\ Len(documentIdMap) >= 1

\* the channel a path relative to the export root lies in
ChannelOf(rel) ==
    LET k == IndexFrom(rel, SEP, 1)
    IN  IF k = 0 THEN rel ELSE SubSeq(rel, 1, k - 1)

\* an earlier call than the i-th, to endpoint e for src, returned id
ReturnedBefore(i, e, src, id) ==
    \E k \in 1..(i - 1) :
        /\ calls[k].endpoint = e
        /\ calls[k].src = src
        /\ calls[k].outcome = "returned"
        /\ calls[k].response = id

\* C7: Hierarchy preservation.  A document created for a markdown file or
\* folder directly inside a non-media folder S is created with
\* parentDocumentId = the id of the container document created for S and
\* with the collectionId of the collection created for its channel; a
\* document directly in a channel directory is created with no
\* parentDocumentId.
C7_Hierarchy ==
    \A i \in 1..Len(calls) :
        calls[i].endpoint = "documents.create" =>
            LET S == dirname(calls[i].src)
                chan == ChannelOf(calls[i].src)
            IN  /\ ReturnedBefore(i, "collections.create", chan, calls[i].collectionId)
                /\ IF S = chan
                   THEN calls[i].parentDocumentId = NULL
                   ELSE ReturnedBefore(i, "documents.create", S, calls[i].parentDocumentId)

\* a document two folders below its channel has been created
C7_Witness ==
    \E i \in 1..Len(calls) :
        /\ calls[i].endpoint = "documents.create"
        /\ calls[i].outcome = "returned"
        /\ dirname(dirname(calls[i].src)) # ChannelOf(calls[i].src)
        /\ dirname(calls[i].src) # ChannelOf(calls[i].src)

MakeRequestCalls == CreateCalls \cup UpdateCalls

\* C8: Retry budget.  A makeRequest call makes at most 3 attempts; after a
\* failed attempt of any kind with attempts left it attempts again; it
\* returns at its first successful attempt and makes no attempt after it;
\* it raises exactly when 3 attempts have failed.
C8_RetryBudget ==
    \A i \in 1..Len(calls) :
        calls[i].endpoint \in MakeRequestCalls =>
            LET c == calls[i]
                failed == Len(c.waits)
            IN  /\ c.attempts <= 3
                /\ c.outcome = "returned" => c.attempts = failed + 1
                /\ c.outcome = "raised" => (c.attempts = 3 /\ failed = 3)
                /\ (c.outcome = "pending" /\ failed = 3) => ~ENABLED fetchOk
                /\ c.outcome = "pending" =>
                       /\ i = Len(calls)
                       /\ c.attempts = failed
                       /\ (failed > 0 => lastError \in FetchErrors)
                       /\ (failed < 3 => ENABLED fetchOk)

\* a makeRequest call has raised after three failed attempts
C8_Witness ==
    \E i \in 1..Len(calls) :
        /\ calls[i].endpoint \in MakeRequestCalls
        /\ calls[i].outcome = "raised"
        /\ calls[i].attempts = 3

\* what holds of the call log and the loop positions in every state
C9_State ==
    /\ \A i \in 1..Len(calls) :
           /\ (calls[i].outcome = "raised"
                   /\ calls[i].endpoint \in AttachmentCalls \cup UpdateCalls)
                  => phase # "Failed"
           /\ (calls[i].outcome = "raised" /\ calls[i].endpoint \in CreateCalls)
                  => /\ i = Len(calls)
                     /\ pc \in {"collection", "fileDoc", "dirDoc", "failed"}
                     /\ attachmentUrlMap = EmptyMap
    /\ pc = "done" =>
           /\ attIdx = Len(attachmentLinks) + 1
           /\ updIdx = Len(documentIdMap) + 1
    /\ phase = "Failed" =>
           /\ Last(calls).outcome = "raised"
           /\ Last(calls).endpoint \in CreateCalls

\* what holds of every step
C9_Step ==
    /\ (pc \in {"attCreate", "attUpload"} /\ Last(calls').outcome = "raised")
           => (pc' = "attachments" /\ attIdx' = attIdx + 1)
    /\ (pc = "update" /\ Raised)
           => (pc' = "updates" /\ updIdx' = updIdx + 1)
    /\ (pc \in {"attachments", "attCreate", "attUpload"} /\ attIdx' # attIdx)
           => attIdx' = attIdx + 1
    /\ (pc \in {"updates", "update"} /\ updIdx' # updIdx)
           => updIdx' = updIdx + 1
    /\ (pc \in {"collection", "fileDoc", "dirDoc"} /\ Raised)
           => (phase' = "Failed" /\ calls' = calls)

\* C9: Failure granularity.  A failure of one item of the attachment loop or
\* of the update loop does not abort the run: the loop moves on to the next
\* item, no item is skipped, and a run that ends in Done has gone through
\* every item of both loops.  A collections.create or documents.create that
\* fails after its retries aborts the run: no call at all is made after it.
C9_FailureGranularity == []C9_State /\ [][C9_Step]_vars

\* a run has ended in Done, updates included, although an attachment call had failed
C9_Witness ==
    /\ pc = "done"
    /\ \E i \in 1..Len(calls) :
           /\ calls[i].endpoint \in AttachmentCalls
           /\ calls[i].outcome = "raised"
           /\ \E j \in (i + 1)..Len(calls) : calls[j].endpoint = "documents.update"

\* the kinds of remote call each state of the orchestrator makes
RemoteCallsOf(state) ==
    CASE state = "CreatingStructure" -> CreateCalls
      [] state = "UploadingAttachments" -> AttachmentCalls
      [] state = "RewritingLinks" -> UpdateCalls

\* the run ended in Done although a call of kind e, made in the given
\* state, had failed for good
Survived(state, e) ==
    /\ pc = "done"
    /\ \E i \in 1..Len(calls) :
           /\ calls[i].phase = state
           /\ calls[i].endpoint = e
           /\ calls[i].outcome = "raised"

\* C10 as stated: in each of CreatingStructure, UploadingAttachments and
\* RewritingLinks there is a remote call whose unrecovered failure moves the
\* orchestrator to Failed; so in none of them can every kind of remote call
\* of that state fail for good in a run that still ends in Done.
C10_AsClaimed ==
    \A state \in {"CreatingStructure", "UploadingAttachments", "RewritingLinks"} :
        \E e \in RemoteCallsOf(state) : ~Survived(state, e)

\* C10: Failed is entered from CreatingStructure only (amended).  In
\* CreatingStructure a collections.create or documents.create that has
\* raised moves the orchestrator to Failed; no step taken in
\* UploadingAttachments or RewritingLinks, the failure of a remote call
\* included, moves it to Failed.
C10_FailedOnlyFromStructure ==
    [][/\ phase \in {"UploadingAttachments", "RewritingLinks"} => phase' # "Failed"
       /\ (phase = "CreatingStructure" /\ Raised) => phase' = "Failed"
       /\ phase' = "Failed" => (phase = "CreatingStructure" /\ Raised)]_vars

\* the orchestrator is in Failed, after a documents.create gave up
C10_Witness ==
    /\ phase = "Failed"
    /\ Last(calls).endpoint = "documents.create"
    /\ Last(calls).attempts = 3

\* the i-th call is a documents.update made for the registry key given
UpdateFor(i, key) == calls[i].endpoint = "documents.update" /\ calls[i].src = key

\* the registry entry under key passes the test of the update loop: its path
\* is a file and ends in ".md"
IsMarkdownEntry(key) == isFile(fs, P(key)) /\ EndsWith(key, MD)

CallsFor(e, link) ==
    {i \in 1..Len(calls) : calls[i].endpoint = e /\ calls[i].src = link}

\* the markdown files of the export whose content holds the literal link
DocumentsLinking(link) ==
    {d \in MarkdownFiles :
         MapHas(scanMarkdownLinks(readFile(fs, d), d).attachmentLinks, link)}

\* every literal link the export holds, in any markdown file
AllLiterals ==
    UNION {MapKeys(scanMarkdownLinks(readFile(fs, d), d).attachmentLinks) :
               d \in MarkdownFiles}

\* C12: At most one upload per literal.  For every literal link string, at
\* most one attachments.create request and at most one byte upload are made
\* in a run, however many documents hold that literal, and its URL is
\* registered at most once.
C12_UploadOncePerLiteral ==
    /\ \A i \in 1..Len(calls) :
           calls[i].endpoint \in AttachmentCalls => calls[i].src \in AllLiterals
    /\ \A link \in AllLiterals :
           /\ Cardinality(CallsFor("attachments.create", link)) <= 1
           /\ Cardinality(CallsFor("upload", link)) <= 1
           /\ Cardinality({i \in 1..Len(writes) :
                  writes[i].map = "attachmentUrlMap" /\ writes[i].key = link}) <= 1
    /\ Len(attachmentLinks) = Cardinality(MapKeys(attachmentLinks))

\* the run has ended with a literal uploaded that two documents hold
C12_Witness ==
    /\ pc = "done"
    /\ \E link \in AllLiterals :
           /\ Cardinality(DocumentsLinking(link)) >= 2
           /\ \E i \in CallsFor("upload", link) : calls[i].outcome = "returned"

\* the content once the preamble, the heading and the leading blank lines
\* are gone, before any link is replaced
Cleaned(content) == StripLeadingNewlines(removeHeader(dropPreamble(content)))

\* the URLs the two registries hold
RegisteredUrls(docUrls, attUrls) ==
    {docUrls[i].v : i \in 1..Len(docUrls)} \cup {attUrls[i].v : i \in 1..Len(attUrls)}

\* no registered URL is itself a link target that the registries resolve
NoUrlIsTarget(docUrls, attUrls) ==
    \A u \in RegisteredUrls(docUrls, attUrls) :
        replaceLink(Link(<<"t">>, u), <<"t">>, u, docUrls, attUrls) = Link(<<"t">>, u)

\* C13 as stated: updateMarkdownLinks applied to what updateMarkdownLinks
\* returned changes nothing, for every content and every registry state.
C13_AsClaimed ==
    Len(applied.updated) = 2 => applied.updated[2] = applied.updated[1]

\* C13: Idempotence of the link replacement (amended).  The replacement of
\* link targets, applied once more to what updateMarkdownLinks returned,
\* changes nothing, whenever no registered URL is itself a target that the
\* registries resolve.  updateMarkdownLinks as a whole is not idempotent:
\* every application discards six lines and a heading again.
C13_ReplaceIdempotent ==
    (applied.replaced # <<>> /\ NoUrlIsTarget(applied.docUrls, applied.attUrls))
        => applied.replaced[1] = applied.updated[1]

\* a link was replaced by a registered URL, and the replacement was applied
\* once more
C13_Witness ==
    /\ applied.replaced # <<>>
    /\ NoUrlIsTarget(applied.docUrls, applied.attUrls)
    /\ applied.updated[1] # Cleaned(applied.content)
    /\ applied.replaced[1] = applied.updated[1]

\* the two document registries are left as they are by the step
DocumentMapsUnchanged ==
    /\ documentIdMap' = documentIdMap
    /\ documentUrlMap' = documentUrlMap

\* what the frame condition says of every state
C14_State ==
    /\ phase = "CreatingStructure" => attachmentUrlMap = EmptyMap
    /\ \A i, j \in 1..Len(writes) :
           (i < j /\ writes[i].map = "attachmentUrlMap")
               => writes[j].map = "attachmentUrlMap"

\* what the frame condition says of every step
C14_Step ==
    /\ phase \in {"UploadingAttachments", "RewritingLinks"} => DocumentMapsUnchanged
    /\ phase \in {"CreatingStructure", "RewritingLinks"}
           => attachmentUrlMap' = attachmentUrlMap
    /\ phase \in {"RewritingLinks", "Done", "Failed"}
           => (DocumentMapsUnchanged /\ attachmentUrlMap' = attachmentUrlMap
                   /\ writes' = writes)

\* C14: Registry frame condition.  No step of phase 2 or phase 3 changes
\* documentIdMap or documentUrlMap, no step of phase 1 or phase 3 changes
\* attachmentUrlMap, and from the end of phase 2 to the end of the run the
\* three maps stay as they are.
C14_RegistryFrame == []C14_State /\ [][C14_Step]_vars

\* phase 3 is under way with an update answered, and all three registries
\* hold entries
C14_Witness ==
    /\ phase = "RewritingLinks"
    /\ Returned /\ Last(calls).endpoint = "documents.update"
    /\ documentIdMap # EmptyMap
    /\ documentUrlMap # EmptyMap
    /\ attachmentUrlMap # EmptyMap

\* the names of the files directly in directory d
FileNamesIn(d) ==
    {basename(fs[i].path) :
         i \in {k \in 1..Len(fs) : fs[k].kind = "file" /\ dirname(fs[k].path) = d}}

MediaExtensionNames == {"jpg", "jpeg", "png", "gif", "pdf"}

\* the name ends in a dot followed by a media extension, in any case
HasMediaExtension(name) ==
    /\ Len(name) >= 2
    /\ name[Len(name) - 1] = "."
    /\ \E e \in MediaExtensionNames : ToLowerCase(name[Len(name)]) = e

\* C15: Classification of directories.  isMediaFolder is true for every
\* directory whose base name starts with "media_", whatever it holds and
\* also when it is empty; for any other directory it is true exactly when
\* the directory directly holds at least one file and every such file has an
\* extension among jpg, jpeg, png, gif, pdf in any case; it is false when a
\* file has another extension or none, and false when there is no file.
C15_Classification ==
    \A i \in 1..Len(applied.classified) :
        LET d == applied.classified[i].k
            result == applied.classified[i].v
        IN  /\ StartsWith(basename(d), <<"media_">>) => result = TRUE
            /\ ~StartsWith(basename(d), <<"media_">>) =>
                   /\ result = (/\ FileNamesIn(d) # {}
                                /\ \A n \in FileNamesIn(d) : HasMediaExtension(n))
                   /\ FileNamesIn(d) = {} => result = FALSE
                   /\ (\E n \in FileNamesIn(d) : ~HasMediaExtension(n)) => result = FALSE

\* a directory not named media_ that holds two media files, one with its
\* extension in upper case, has been classified a media folder
C15_Witness ==
    \E i \in 1..Len(applied.classified) :
        /\ ~StartsWith(basename(applied.classified[i].k), <<"media_">>)
        /\ Cardinality(FileNamesIn(applied.classified[i].k)) = 2
        /\ <<"x", ".", "PNG">> \in FileNamesIn(applied.classified[i].k)
        /\ applied.classified[i].v = TRUE

\* migrate() has ended, one way or the other
Terminal == pc \in {"done", "failed"}

\* an error has left the three phases: a call that raised where no
\* try/catch of migrate()'s loops is around it
ErrorPropagated ==
    \E i \in 1..Len(calls) :
        calls[i].outcome = "raised" /\ calls[i].endpoint \in CreateCalls

\* what holds of the terminal states
C16_State ==
    /\ exitCode = NULL <=> ~Terminal
    /\ pc = "done" <=> phase = "Done"
    /\ pc = "failed" <=> phase = "Failed"
    /\ phase = "Done" => (exitCode = "0" /\ ~ErrorPropagated)
    /\ phase = "Failed" => (exitCode = "1" /\ ErrorPropagated)
    /\ Terminal => ~Pending

\* C16: Run to completion.  Every run of migrate() over a finite export, with
\* every remote call answered in the end, reaches Done (exit status 0) or
\* Failed (exit status not 0), never both; it reaches Failed exactly when an
\* error leaves the three phases; and once it has ended no remote call is
\* made and nothing changes any more.
C16_RunToCompletion ==
    /\ <>Terminal
    /\ []C16_State
    /\ ErrorPropagated ~> (phase = "Failed")
    /\ [][~Terminal]_vars

\* a run has ended in Failed with status 1, after documents had been
\* created and registered
C16_Witness ==
    /\ Terminal
    /\ phase = "Failed"
    /\ exitCode = "1"
    /\ ErrorPropagated
    /\ Len(writes) >= 2

\* the documents.create calls, by their place in the log
DocCreates == {i \in 1..Len(calls) : calls[i].endpoint = "documents.create"}

\* the place of the entry for the path src in the listing of the export
ListingIndex(src) == CHOOSE n \in 1..Len(fs) : fs[n].path = P(src)

\* the markdown files directly in the directory with the path dir
MarkdownFilesIn(dir) == {f \in MarkdownFiles : dirname(f) = P(dir)}

\* a documents.create for the path src returned before the j-th call
CreatedBefore(src, j) ==
    \E i \in DocCreates :
        i < j /\ calls[i].src = src /\ calls[i].outcome = "returned"

\* C17: Creation order in phase 1.  Within a directory, documents.create for
\* every markdown file of it, in listing order, comes before documents.create
\* for any of its sub-folders; the container document of a folder is created
\* and registered before any document below that folder is created; and
\* everything below a folder is created before the container of the next
\* folder beside it (depth first).
C17_CreationOrder ==
    \A j \in DocCreates :
        LET src == calls[j].src
        IN  /\ isDirectory(fs, P(src)) =>
                   \A f \in MarkdownFilesIn(dirname(src)) : CreatedBefore(relative(f), j)
            /\ \A i \in DocCreates :
                   (/\ i < j
                    /\ isFile(fs, P(calls[i].src)) /\ isFile(fs, P(src))
                    /\ dirname(calls[i].src) = dirname(src))
                       => ListingIndex(calls[i].src) < ListingIndex(src)
            /\ dirname(src) # ChannelOf(src) =>
                   /\ CreatedBefore(dirname(src), j)
                   /\ MapHas(documentIdMap, dirname(src))
                   /\ calls[j].parentDocumentId = MapGet(documentIdMap, dirname(src))
            /\ \A k \in DocCreates :
                   (Within(P(src), P(calls[k].src)) /\ k # j) => k < j
            /\ \A k \in DocCreates :
                   (/\ k < j
                    /\ isDirectory(fs, P(calls[k].src)) /\ isDirectory(fs, P(src))
                    /\ dirname(calls[k].src) = dirname(src))
                       => /\ ListingIndex(calls[k].src) < ListingIndex(src)
                          /\ \A x \in ReachedFrom(P(calls[k].src)) :
                                 CreatedBefore(relative(x), j)
                          /\ \A m \in DocCreates :
                                 Within(P(calls[m].src), P(calls[k].src)) => m < j

\* phase 1 has ended on an export with two folders side by side, the first
\* holding a folder of its own, and with a document listed after a folder
C17_Witness ==
    /\ pc = "scan"
    /\ \E j, k \in DocCreates :
           /\ k < j
           /\ isDirectory(fs, P(calls[k].src)) /\ isDirectory(fs, P(calls[j].src))
           /\ dirname(calls[k].src) = dirname(calls[j].src)
           /\ Cardinality(ReachedFrom(P(calls[k].src))) >= 3
           /\ \E f \in MarkdownFilesIn(dirname(calls[k].src)) :
                  ListingIndex(relative(f)) > ListingIndex(calls[k].src)

\* C18: One cleaning transform.  parseDocumentContent and updateMarkdownLinks
\* discard the same six lines and strip the same heading line, so for every
\* content in which no link is replaced the text updateMarkdownLinks returns
\* is the body parseDocumentContent returned, the body that was sent when
\* the document was created.
C18_SameCleaning ==
    (/\ applied.parsed # <<>>
     /\ applied.updated # <<>>
     /\ applied.updated[1] = Cleaned(applied.content))
        => applied.updated[1] = applied.parsed[1].content

\* step 0 for the literal link: the document the scan recorded for it has a
\* registered id, and the file the link resolves to exists
ReadyToUpload(link) ==
    LET sourcePath == MapGet(attachmentLinks, link)
    IN  /\ MapHas(attachmentLinks, link)
        /\ MapHas(documentIdMap, relative(sourcePath))
        /\ isFile(fs, resolveAttachmentPath(link, sourcePath))

\* the i-th call is step 1 for the literal link, answered with an upload URL
StepOneDone(i, link) ==
    /\ calls[i].endpoint = "attachments.create"
    /\ calls[i].src = link
    /\ calls[i].outcome = "returned"
    /\ calls[i].id = MapGet(documentIdMap, relative(MapGet(attachmentLinks, link)))

\* the j-th call is step 2 for the literal link, made right after its step 1
StepTwoOf(j, link) ==
    /\ calls[j].endpoint = "upload"
    /\ calls[j].src = link
    /\ j > 1
    /\ StepOneDone(j - 1, link)
    /\ calls[j].id = calls[j - 1].response

\* C19: Two-step attachment protocol.  A literal gets its entry in
\* attachmentUrlMap only after its source document was found registered and
\* its file found on disk, then attachments.create succeeded with an upload
\* URL, then the upload to that URL succeeded, in this order; when the file
\* is missing or a step fails no entry is written for the literal, and the
\* upload is never tried without a successful attachments.create.
C19_TwoStepProtocol ==
    /\ \A link \in MapKeys(attachmentUrlMap) :
           /\ ReadyToUpload(link)
           /\ \E j \in 1..Len(calls) :
                  /\ StepTwoOf(j, link)
                  /\ calls[j].outcome = "returned"
                  /\ MapGet(attachmentUrlMap, link) = AttachmentUrl(calls[j - 1].response)
    /\ \A j \in 1..Len(calls) :
           /\ calls[j].endpoint = "upload" => StepTwoOf(j, calls[j].src)
           /\ calls[j].endpoint = "attachments.create" =>
                  /\ ReadyToUpload(calls[j].src)
                  /\ calls[j].outcome = "returned" =>
                         (j < Len(calls) /\ calls[j + 1].endpoint = "upload")
                  /\ calls[j].outcome = "raised" =>
                         (j = Len(calls) \/ calls[j + 1].endpoint # "upload")
           /\ (calls[j].endpoint \in AttachmentCalls /\ calls[j].outcome # "returned")
                  => ~MapHas(attachmentUrlMap, calls[j].src)
    /\ \A k \in 1..Len(attachmentLinks) :
           ~ReadyToUpload(attachmentLinks[k].k) =>
               /\ ~MapHas(attachmentUrlMap, attachmentLinks[k].k)
               /\ CallsFor("attachments.create", attachmentLinks[k].k) = {}
               /\ CallsFor("upload", attachmentLinks[k].k) = {}

\* the run has ended with one literal registered after both steps, and with
\* another left out because its file is missing
C19_Witness ==
    /\ pc = "done"
    /\ attachmentUrlMap # EmptyMap
    /\ \E k \in 1..Len(attachmentLinks) :
           /\ MapHas(documentIdMap, relative(attachmentLinks[k].v))
           /\ ~isFile(fs, resolveAttachmentPath(attachmentLinks[k].k, attachmentLinks[k].v))

\* the files below the entries from the i-th on, in the order the scan
\* reads them: the listing's order, a directory's files in the directory's
\* place
RECURSIVE Traversal(_, _)
Traversal(entries, i) ==
    IF i > Len(entries) THEN <<>>
    ELSE (IF entries[i].kind = "dir"
          THEN Traversal(readdir(fs, entries[i].path), 1)
          ELSE <<entries[i].path>>)
         \o Traversal(entries, i + 1)

TraversalOrder == Traversal(readdir(fs, SLITE_BACKUP_PATH), 1)

\* the markdown file holding the literal link that the scan reads last
LastHolder(link) ==
    LET at == {k \in 1..Len(TraversalOrder) :
                   TraversalOrder[k] \in DocumentsLinking(link)}
    IN  TraversalOrder[CHOOSE k \in at : \A j \in at : j <= k]

\* C20: Last-seen wins in the scanner.  A literal link held by several
\* markdown files is associated with the path of the file the scan reads
\* last (listing order, a subdirectory's files in the subdirectory's
\* place), and the attachment is looked up and uploaded for that document
\* only: under its id, from the file the link resolves to beside it.
C20_LastSeenWins ==
    pc \in {"attachments", "attCreate", "attUpload", "updates", "update", "done"} =>
        /\ MapKeys(attachmentLinks) = AllLiterals
        /\ \A link \in AllLiterals :
               /\ MapGet(attachmentLinks, link) = LastHolder(link)
               /\ \A i \in CallsFor("attachments.create", link) :
                      /\ calls[i].id = MapGet(documentIdMap, relative(LastHolder(link)))
                      /\ isFile(fs, resolveAttachmentPath(link, LastHolder(link)))
                      /\ calls[i].title =
                             basename(resolveAttachmentPath(link, LastHolder(link)))

\* the run has ended with a literal that two documents hold uploaded once,
\* for the document read last, whose id differs from the other's
C20_Witness ==
    /\ pc = "done"
    /\ \E link \in AllLiterals :
           /\ Cardinality(DocumentsLinking(link)) >= 2
           /\ \E d \in DocumentsLinking(link) :
                  /\ d # LastHolder(link)
                  /\ MapHas(documentIdMap, relative(d))
                  /\ MapGet(documentIdMap, relative(d)) #
                         MapGet(documentIdMap, relative(LastHolder(link)))
           /\ \E i \in CallsFor("upload", link) : calls[i].outcome = "returned"

\* the run has ended with a literal that two documents hold never uploaded:
\* the document read last has no such file, the one read before it has
C20_WitnessInPlace ==
    /\ pc = "done"
    /\ \E link \in AllLiterals :
           /\ \E d \in DocumentsLinking(link) :
                  /\ d # LastHolder(link)
                  /\ isFile(fs, resolveAttachmentPath(link, d))
           /\ ~isFile(fs, resolveAttachmentPath(link, LastHolder(link)))
           /\ CallsFor("attachments.create", link) = {}

\* sub occurs in s, symbol for symbol
Occurs(sub, s) ==
    \E i \in 1..(Len(s) - Len(sub) + 1) : SubSeq(s, i, i + Len(sub) - 1) = sub

\* the links the replace of updateMarkdownLinks matches in s from position
\* i on, left to right
RECURSIVE RewriterMatches(_, _)
RewriterMatches(s, i) ==
    IF i > Len(s) THEN <<>>
    ELSE LET m == updateRegexAt(s, i)
         IN  IF m.ok
             THEN <<m>> \o RewriterMatches(s, m.end)
             ELSE RewriterMatches(s, i + 1)

\* the URL the registries hold for the target path, or NULL
Resolved(path, docUrls, attUrls) ==
    LET normalizedPath == stripMd(decodeURIComponent(stripLeadingSlash(path)))
    IN  IF MapHas(docUrls, normalizedPath) THEN MapGet(docUrls, normalizedPath)
        ELSE IF MapHas(docUrls, normalizedPath \o MD)
        THEN MapGet(docUrls, normalizedPath \o MD)
        ELSE MapGet(attUrls, path)

\* C21: Scanner and rewriter agree on which links are external.  A target
\* that scanMarkdownLinks recorded as a document or attachment link is not
\* passed over by updateMarkdownLinks as an absolute URL: when the
\* registries hold a URL for it, the link comes out pointing at that URL.
\* (The other half, a target the scanner ignores as http:// or https:// is
\* left as it is, holds; this half does not.)
C21_ExternalAgreement ==
    (applied.scanned # <<>> /\ applied.updated # <<>>) =>
        LET found == applied.scanned[1]
            links == RewriterMatches(Cleaned(applied.content), 1)
        IN  \A n \in 1..Len(links) :
                LET path == links[n].path
                    url == Resolved(path, applied.docUrls, applied.attUrls)
                IN  ((MapHas(found.attachmentLinks, path) \/ MapHas(found.documentLinks, path))
                        /\ url # NULL)
                    => Occurs(Link(links[n].text, url), applied.updated[1])

\* the waits of the call c are the backoff delays: 2^k * 1000 ms after the
\* k-th failed attempt, each the double of the one before
BackoffDelays(c) ==
    /\ \A k \in 1..Len(c.waits) : c.waits[k] = (2 ^ k) * 1000
    /\ \A k \in 1..(Len(c.waits) - 1) : c.waits[k + 1] = 2 * c.waits[k]

\* C22: Backoff in makeRequest.  The wait after the k-th failed attempt
\* (k = 1, 2, 3) is 2^k * 1000 ms, each wait the double of the one before,
\* and a wait stands only between a failed attempt and the next attempt:
\* none after the successful attempt, none after the last failed attempt
\* before the error is raised.
C22_Backoff ==
    \A i \in 1..Len(calls) :
        calls[i].endpoint \in MakeRequestCalls =>
            /\ BackoffDelays(calls[i])
            /\ Len(calls[i].waits) <= maxRetries
            /\ calls[i].outcome \in {"returned", "raised"} =>
                   Len(calls[i].waits) = calls[i].attempts - 1

=============================================================================
